---- MODULE Spec2Model ----
(***************************************************************************)
(* Model of the luthor scanner (src/tokenizer.rs), its predecessor         *)
(* (src/lexer/mod.rs) and the format lexers built on it (src/lexers/*.rs). *)
(*                                                                         *)
(* A character is a one-character string; a text is a sequence of          *)
(* characters.  The tokenizer's `data: Chars` iterator is the pair         *)
(* (data, head): the text it was created from and the number of characters *)
(* the iterator has already yielded.                                       *)
(***************************************************************************)
EXTENDS Integers, Sequences, FiniteSets, TLC

VARIABLES
    mode,            \* which object / lexer this behaviour exercises
    data,            \* Tokenizer.data (the text) / Lexer.data
    head,            \* characters already yielded by Tokenizer.data
    current_token,   \* Tokenizer.current_token
    tokens,          \* Tokenizer.tokens / Lexer.tokens
    states,          \* Tokenizer.states
    char_count,      \* Lexer.char_count
    token_start,     \* Lexer.token_start
    token_position,  \* Lexer.token_position
    state_function,  \* lex(): the local state_function
    phase,           \* lex(): "running", "returned" or "panicked"
    iterations,      \* lex(): the iterations of its loop made so far
    ret              \* the last call made: its name and, for a query, its argument and result

vars == <<mode, data, head, current_token, tokens, states,
          char_count, token_start, token_position, state_function, phase,
          iterations, ret>>

(***************************************************************************)
(* Bounds                                                                  *)
(***************************************************************************)
MaxLen == 3          \* longest text given to the scanner operations
MaxAmount == 4       \* largest amount passed to tokenize_next
MaxPieces == 2       \* texts for the queries and the lexers are built from at most this many pieces
MaxStack == 2        \* deepest state stack built by push

(***************************************************************************)
(* Characters                                                              *)
(***************************************************************************)
None == "None"       \* Option::None
NoRet == [op |-> "new"]
Call(name) == [op |-> name]

\* str::len() of one character: its UTF-8 width in bytes
Utf8Len(c) == IF c = "€" THEN 3 ELSE IF c \in {"é", "²"} THEN 2 ELSE 1

RECURSIVE ByteLen(_)
\* str::len(): the length of a text in bytes
ByteLen(s) == IF s = <<>> THEN 0 ELSE Utf8Len(Head(s)) + ByteLen(Tail(s))

Min(a, b) == IF a < b THEN a ELSE b

RECURSIVE Concat(_)
\* the concatenation of the lexemes of a token sequence
Concat(ts) == IF ts = <<>> THEN <<>> ELSE Head(ts).lexeme \o Concat(Tail(ts))

Token(lexeme, category) == [lexeme |-> lexeme, category |-> category]

(***************************************************************************)
(* Tokenizer (src/tokenizer.rs), as operators on a record of its fields    *)
(***************************************************************************)
new_mut_bytes(d) == [data |-> d, head |-> ByteLen(d) - Len(d), current_token |-> <<>>,
                     tokens |-> <<>>, states |-> <<>>]

new(d) == [data |-> d, head |-> 0, current_token |-> <<>>,
           tokens |-> <<>>, states |-> <<>>]

\* the characters the iterator has not yielded yet
Remaining(t) == SubSeq(t.data, t.head + 1, Len(t.data))

tokens_mut_drop(t) ==
    LET remaining_data == t.current_token \o Remaining(t)
    IN  IF Remaining(t) # <<>>
        THEN Append(t.tokens, Token(remaining_data, "Text"))
        ELSE t.tokens

tokens_fn(t) ==
    LET remaining_data == t.current_token \o Remaining(t)
    IN  IF remaining_data # <<>>
        THEN Append(t.tokens, Token(remaining_data, "Text"))
        ELSE t.tokens

advance_mut_overrun(t) ==
    IF t.head < Len(t.data)
    THEN [t EXCEPT !.head = @ + 1,
                   !.current_token = Append(@, t.data[t.head + 1])]
    ELSE [t EXCEPT !.head = @ + 1]

advance_mut_skip(t) ==
    IF t.head < Len(t.data)
    THEN [t EXCEPT !.head = @ + 1]
    ELSE t

advance(t) ==
    IF t.head < Len(t.data)
    THEN [t EXCEPT !.head = @ + 1,
                   !.current_token = Append(@, t.data[t.head + 1])]
    ELSE t

after_query_mut_consume(t) == [t EXCEPT !.head = Min(@ + 1, Len(t.data))]

\* the tokenizer a query leaves: the queries take &self and read the input
\* through a duplicate of the iterator (self.data.clone())
after_query(t) == t

current_char_mut_tail(t) ==
    IF t.head < Len(t.data) THEN t.data[t.head - Len(t.current_token) + 1] ELSE None

current_char(t) == IF t.head < Len(t.data) THEN t.data[t.head + 1] ELSE None

next_non_whitespace_char_mut_skip(t) ==
    LET idx == {i \in (t.head + 2)..Len(t.data) : t.data[i] \notin {" ", "\n"}}
    IN  IF idx = {} THEN None
        ELSE t.data[CHOOSE i \in idx : \A j \in idx : i <= j]

next_non_whitespace_char(t) ==
    LET idx == {i \in (t.head + 1)..Len(t.data) : t.data[i] \notin {" ", "\n"}}
    IN  IF idx = {} THEN None
        ELSE t.data[CHOOSE i \in idx : \A j \in idx : i <= j]

has_prefix_mut_short(t, prefix) ==
    \A i \in 1..Len(prefix) :
        t.head + i <= Len(t.data) => prefix[i] = t.data[t.head + i]

has_prefix(t, prefix) ==
    \A i \in 1..Len(prefix) :
        /\ t.head + i <= Len(t.data)
        /\ prefix[i] = t.data[t.head + i]

starts_with_lexeme_mut_noboundary(t, lexeme) == has_prefix(t, lexeme)

starts_with_lexeme(t, lexeme) ==
    /\ has_prefix(t, lexeme)
    /\ LET k == t.head + ByteLen(lexeme) + 1    \* skip(lexeme.len()).next()
       IN  IF k <= Len(t.data)
           THEN t.data[k] \in {" ", "\n", ","}
           ELSE TRUE

tokenize_mut_replace(t, category) ==
    IF t.current_token # <<>>
    THEN [t EXCEPT !.tokens = <<Token(t.current_token, category)>>, !.current_token = <<>>]
    ELSE t

tokenize_mut_lose(t, category) == [t EXCEPT !.current_token = <<>>]

tokenize_mut_keep(t, category) ==
    IF t.current_token # <<>>
    THEN [t EXCEPT !.tokens = Append(@, Token(t.current_token, category))]
    ELSE t

tokenize_mut_empty(t, category) ==
    [t EXCEPT !.tokens = Append(@, Token(t.current_token, category)),
              !.current_token = <<>>]

tokenize(t, category) ==
    IF t.current_token # <<>>
    THEN [t EXCEPT !.tokens = Append(@, Token(t.current_token, category)),
                   !.current_token = <<>>]
    ELSE t

RECURSIVE advance_times(_, _)
\* for _ in 0..amount { self.advance(); }
advance_times(t, amount) ==
    IF amount = 0 THEN t ELSE advance_times(advance(t), amount - 1)

tokenize_next_mut_merge(t, amount, category) ==
    tokenize(advance_times(t, amount), category)

tokenize_next(t, amount, category) ==
    tokenize(advance_times(tokenize(t, "Text"), amount), category)

RECURSIVE consume_whitespace_loop(_, _)
consume_whitespace_loop(t, found_whitespace) ==
    IF current_char(t) \in {" ", "\n"}
    THEN consume_whitespace_loop(
             advance(IF ~found_whitespace THEN tokenize(t, "Text") ELSE t), TRUE)
    ELSE IF found_whitespace THEN tokenize(t, "Whitespace") ELSE t

consume_whitespace_mut_noflush(t) == consume_whitespace_loop(t, TRUE)

consume_whitespace_mut_flush(t) == consume_whitespace_loop(tokenize(t, "Text"), FALSE)

consume_whitespace(t) == consume_whitespace_loop(t, FALSE)

(***************************************************************************)
(* Lexer (src/lexer/mod.rs), the index-based predecessor                   *)
(***************************************************************************)
lexer_new(d) == [data |-> d, char_count |-> Len(d), token_start |-> 0,
                 token_position |-> 0, tokens |-> <<>>]

has_more_data(l) == l.token_position < l.char_count

lexer_advance_mut_overrun(l) == [l EXCEPT !.token_position = @ + 1]

lexer_advance(l) ==
    IF has_more_data(l) THEN [l EXCEPT !.token_position = @ + 1] ELSE l

\* data.slice_chars(begin, end)
slice_chars(d, begin, end) == SubSeq(d, begin + 1, end)

lexer_tokenize_mut_nocommit(l, category) == [l EXCEPT !.token_start = l.token_position]

lexer_tokenize(l, category) ==
    IF l.token_start # l.token_position
    THEN [l EXCEPT !.tokens = Append(@, Token(slice_chars(l.data, l.token_start,
                                                          l.token_position), category)),
                   !.token_start = l.token_position]
    ELSE l

lexer_tokenize_next_mut_noclamp(l, amount, category) ==
    lexer_tokenize([lexer_tokenize(l, "Text") EXCEPT
                        !.token_position = @ + amount], category)

lexer_tokenize_next(l, amount, category) ==
    lexer_tokenize([lexer_tokenize(l, "Text") EXCEPT
                        !.token_position = Min(@ + amount, l.char_count)], category)

(***************************************************************************)
(* State functions: a state function maps a tokenizer to the tokenizer it  *)
(* leaves and the state it returns (None: this context is finished; Panic: *)
(* the call panicked).                                                     *)
(***************************************************************************)
Panic == "Panic"
Go(t, next) == [t |-> t, next |-> next]

InitialState == "initial_state"
Whitespace == {" ", "\n"}

push_mut_front(t, state) == [t EXCEPT !.states = <<state>> \o @]

\* states.push(state)
push(t, state) == [t EXCEPT !.states = Append(@, state)]

\* texts the lexers compare the input with
Word == [
    true |-> <<"t", "r", "u", "e">>,
    false |-> <<"f", "a", "l", "s", "e">>,
    null |-> <<"n", "u", "l", "l">>,
    class |-> <<"c", "l", "a", "s", "s">>,
    module |-> <<"m", "o", "d", "u", "l", "e">>,
    include |-> <<"i", "n", "c", "l", "u", "d", "e">>,
    extend |-> <<"e", "x", "t", "e", "n", "d">>,
    def |-> <<"d", "e", "f">>,
    do |-> <<"d", "o">>,
    if |-> <<"i", "f">>,
    unless |-> <<"u", "n", "l", "e", "s", "s">>,
    elsif |-> <<"e", "l", "s", "i", "f">>,
    else |-> <<"e", "l", "s", "e">>,
    end |-> <<"e", "n", "d">>,
    nil |-> <<"n", "i", "l">>,
    private |-> <<"p", "r", "i", "v", "a", "t", "e">>,
    begin |-> <<"b", "e", "g", "i", "n">>,
    rescue |-> <<"r", "e", "s", "c", "u", "e">>,
    raise |-> <<"r", "a", "i", "s", "e">>,
    function |-> <<"f", "u", "n", "c", "t", "i", "o", "n">>,
    return |-> <<"r", "e", "t", "u", "r", "n">>,
    var |-> <<"v", "a", "r">>,
    pub |-> <<"p", "u", "b">>,
    let |-> <<"l", "e", "t">>,
    mut |-> <<"m", "u", "t">>,
    match |-> <<"m", "a", "t", "c", "h">>,
    loop |-> <<"l", "o", "o", "p">>,
    use |-> <<"u", "s", "e">>,
    mod |-> <<"m", "o", "d">>,
    extern |-> <<"e", "x", "t", "e", "r", "n">>,
    crate |-> <<"c", "r", "a", "t", "e">>,
    for |-> <<"f", "o", "r">>,
    in |-> <<"i", "n">>,
    fn |-> <<"f", "n">> ]

\* byte offset of the character with (0-based) index i of text d
ByteOffset(d, i) == ByteLen(SubSeq(d, 1, i))

\* str::is_char_boundary
is_char_boundary(d, k) == \E i \in 0..Len(d) : ByteOffset(d, i) = k

\* &d[k..] for a byte offset k that is a character boundary
slice_from(d, k) ==
    LET i == CHOOSE i \in 0..Len(d) : ByteOffset(d, i) = k
    IN  SubSeq(d, i + 1, Len(d))

\* str::starts_with with an ASCII pattern
str_starts_with(s, p) == Len(p) <= Len(s) /\ SubSeq(s, 1, Len(p)) = p

(***************************************************************************)
(* src/lexers/default.rs                                                   *)
(***************************************************************************)
default_initial_state_mut_nocommit(t) ==
    LET c == current_char(t)
    IN  IF c = None THEN Go(t, None)
        ELSE IF c \in Whitespace
        THEN Go(advance(tokenize(t, "Text")), "whitespace")
        ELSE Go(advance(t), InitialState)

default_initial_state(t) ==
    LET c == current_char(t)
    IN  IF c = None THEN Go(tokenize(t, "Text"), None)
        ELSE IF c \in Whitespace
        THEN Go(advance(tokenize(t, "Text")), "whitespace")
        ELSE Go(advance(t), InitialState)

default_whitespace_mut_each(t) ==
    LET c == current_char(t)
    IN  IF c = None THEN Go(tokenize(t, "Whitespace"), None)
        ELSE IF c \in Whitespace
        THEN Go(advance(tokenize(t, "Whitespace")), "whitespace")
        ELSE Go(tokenize(t, "Whitespace"), InitialState)

default_whitespace(t) ==
    LET c == current_char(t)
    IN  IF c = None THEN Go(tokenize(t, "Whitespace"), None)
        ELSE IF c \in Whitespace
        THEN Go(advance(t), "whitespace")
        ELSE Go(tokenize(t, "Whitespace"), InitialState)

default_state(f, t) ==
    CASE f = InitialState -> default_initial_state(t)
      [] f = "whitespace" -> default_whitespace(t)

(***************************************************************************)
(* src/lexers/json.rs.  It reads the fields token_position, token_start   *)
(* and data of the index-based scanner (src/lexer/mod.rs): positions count *)
(* characters, data is a String and data[k..] slices it at byte offset k.  *)
(***************************************************************************)
t_token_position(t) == t.head
t_token_start(t) == t.head - Len(t.current_token)

json_literal_mut_anywhere(t) ==
    IF ~is_char_boundary(t.data, t_token_position(t))
    THEN Go(t, Panic)
    ELSE LET remaining_data == slice_from(t.data, t_token_position(t))
         IN  IF str_starts_with(remaining_data, Word.true)
             THEN Go(tokenize_next(t, 4, "Boolean"), InitialState)
             ELSE IF str_starts_with(remaining_data, Word.false)
             THEN Go(tokenize_next(t, 5, "Boolean"), InitialState)
             ELSE IF str_starts_with(remaining_data, Word.null)
             THEN Go(tokenize_next(t, 4, "Keyword"), InitialState)
             ELSE Go(advance(t), InitialState)

json_literal(t) ==
    IF t_token_position(t) = t_token_start(t)
    THEN IF ~is_char_boundary(t.data, t_token_position(t))
         THEN Go(t, Panic)
         ELSE LET remaining_data == slice_from(t.data, t_token_position(t))
              IN  IF str_starts_with(remaining_data, Word.true)
                  THEN Go(tokenize_next(t, 4, "Boolean"), InitialState)
                  ELSE IF str_starts_with(remaining_data, Word.false)
                  THEN Go(tokenize_next(t, 5, "Boolean"), InitialState)
                  ELSE IF str_starts_with(remaining_data, Word.null)
                  THEN Go(tokenize_next(t, 4, "Keyword"), InitialState)
                  ELSE Go(advance(t), InitialState)
    ELSE Go(advance(t), InitialState)

json_initial_state(t) ==
    LET c == current_char(t)
    IN  CASE c = None -> Go(tokenize(t, "Text"), None)
          [] c \in {"{", "}"} -> Go(tokenize_next(t, 1, "Brace"), InitialState)
          [] c \in {"[", "]"} -> Go(tokenize_next(t, 1, "Bracket"), InitialState)
          [] c \in Whitespace -> Go(advance(tokenize(t, "Text")), "whitespace")
          [] c = "\"" -> Go(advance(tokenize(t, "Text")), "inside_string")
          [] c = ":" -> Go(tokenize_next(t, 1, "AssignmentOperator"), InitialState)
          [] OTHER -> json_literal(t)

inside_quotes_mut_single(t, quote, self, back) ==
    LET c == current_char(t)
    IN  CASE c = None -> Go(tokenize(t, "String"), None)
          [] c = quote -> Go(tokenize(advance(t), "String"), back)
          [] OTHER -> Go(advance(t), self)

\* inside_string of json.rs, ruby.rs, javascript.rs, rust.rs (quote = "\"",
\* back = initial_state) and of xml.rs (back = inside_tag), and
\* inside_single_quote_string of ruby.rs and javascript.rs (quote = "'")
inside_quotes(t, quote, self, back) ==
    LET c == current_char(t)
    IN  CASE c = None -> Go(tokenize(t, "String"), None)
          [] c = quote -> Go(tokenize(advance(t), "String"), back)
          [] c = "\\" -> Go(advance(advance(t)), self)
          [] OTHER -> Go(advance(t), self)

json_inside_string_mut_split(t) ==
    LET c == current_char(t)
    IN  CASE c = None -> Go(tokenize(t, "String"), None)
          [] c = "\"" -> Go(tokenize(advance(t), "String"), InitialState)
          [] c = "\\" -> Go(advance(advance(tokenize(t, "String"))), "inside_string")
          [] OTHER -> Go(advance(t), "inside_string")

json_inside_string(t) == inside_quotes(t, "\"", "inside_string", InitialState)

json_whitespace(t) == default_whitespace(t)

json_state(f, t) ==
    CASE f = InitialState -> json_initial_state(t)
      [] f = "inside_string" -> json_inside_string(t)
      [] f = "whitespace" -> json_whitespace(t)

(***************************************************************************)
(* src/lexers/xml.rs (its starts_with is the tokenizer's has_prefix)       *)
(***************************************************************************)
xml_initial_state(t) ==
    LET c == current_char(t)
    IN  CASE c = None -> Go(tokenize(t, "Text"), None)
          [] c # None /\ has_prefix(t, <<"<", "/">>) ->
                Go(tokenize_next(tokenize(t, "Identifier"), 2, "Text"), "inside_tag")
          [] c = "<" /\ ~has_prefix(t, <<"<", "/">>) ->
                Go(tokenize_next(t, 1, "Text"), "start_of_tag")
          [] c \in Whitespace ->
                Go(push(advance(tokenize(t, "Text")), InitialState), "whitespace")
          [] OTHER -> Go(advance(t), InitialState)

xml_start_of_tag_mut_nopush(t) ==
    LET c == current_char(t)
    IN  CASE c = None -> Go(tokenize(t, "Identifier"), None)
          [] c \in Whitespace -> Go(tokenize(t, "Identifier"), "whitespace")
          [] c = ">" ->
                Go(tokenize_next(tokenize(t, "Identifier"), 1, "Text"), InitialState)
          [] OTHER -> Go(advance(t), "start_of_tag")

xml_start_of_tag(t) ==
    LET c == current_char(t)
    IN  CASE c = None -> Go(tokenize(t, "Identifier"), None)
          [] c \in Whitespace ->
                Go(push(tokenize(t, "Identifier"), "inside_tag"), "whitespace")
          [] c = ">" ->
                Go(tokenize_next(tokenize(t, "Identifier"), 1, "Text"), InitialState)
          [] OTHER -> Go(advance(t), "start_of_tag")

xml_inside_tag(t) ==
    LET c == current_char(t)
    IN  CASE c = None -> Go(tokenize(t, "Identifier"), None)
          [] c = "\"" -> Go(advance(tokenize(t, "Identifier")), "inside_string")
          [] c \in Whitespace ->
                Go(push(advance(tokenize(t, "Identifier")), "inside_tag"), "whitespace")
          [] c = "=" ->
                Go(tokenize_next(tokenize(t, "Identifier"), 1, "AssignmentOperator"),
                   "inside_tag")
          [] c = ">" ->
                Go(tokenize_next(tokenize(t, "Identifier"), 1, "Text"), InitialState)
          [] OTHER ->
                IF has_prefix(t, <<"/", ">">>)
                THEN Go(tokenize_next(tokenize(t, "Identifier"), 2, "Text"), InitialState)
                ELSE Go(advance(t), "inside_tag")

xml_inside_string(t) == inside_quotes(t, "\"", "inside_string", "inside_tag")

xml_whitespace(t) ==
    LET c == current_char(t)
    IN  CASE c = None -> Go(tokenize(t, "Whitespace"), None)
          [] c \in Whitespace -> Go(advance(t), "whitespace")
          [] OTHER ->
                LET u == tokenize(t, "Whitespace")
                IN  IF u.states = <<>>       \* states.pop().unwrap()
                    THEN Go(u, Panic)
                    ELSE Go([u EXCEPT !.states = SubSeq(@, 1, Len(@) - 1)],
                            u.states[Len(u.states)])

xml_state(f, t) ==
    CASE f = InitialState -> xml_initial_state(t)
      [] f = "start_of_tag" -> xml_start_of_tag(t)
      [] f = "inside_tag" -> xml_inside_tag(t)
      [] f = "inside_string" -> xml_inside_string(t)
      [] f = "whitespace" -> xml_whitespace(t)

(***************************************************************************)
(* Parts the ruby, javascript and rust lexers have in common                *)
(***************************************************************************)
Digits == {"0", "1", "2", "3", "4", "5", "6", "7", "8", "9"}
Letters == {"a", "b", "c", "d", "e", "f", "g", "h", "i", "j", "k", "l", "m",
            "n", "o", "p", "q", "r", "s", "t", "u", "v", "w", "x", "y", "z", "é"}

\* char::is_numeric
is_numeric(c) == c \in Digits \cup {"²"}
\* char::is_alphanumeric
is_alphanumeric(c) == c \in Letters \/ is_numeric(c)

pop_mut_peek(t) ==
    IF t.states = <<>> THEN Go(t, None) ELSE Go(t, t.states[Len(t.states)])

\* states.pop(): the popped state (None when the stack is empty) and the
\* tokenizer it leaves
pop(t) ==
    IF t.states = <<>> THEN Go(t, None)
    ELSE Go([t EXCEPT !.states = SubSeq(@, 1, Len(@) - 1)], t.states[Len(t.states)])

\* the first entry of a chain of `if tokenizer.starts_with_lexeme(w)` tests
\* that matches, 0 when none does
first_lexeme(t, chain) ==
    LET hits == {i \in DOMAIN chain : starts_with_lexeme(t, chain[i].w)}
    IN  IF hits = {} THEN 0 ELSE CHOOSE i \in hits : \A j \in hits : i <= j

\* the body of such a test: tokenize_next(n, category), an optional push,
\* return Some(next)
take_lexeme(t, entry) ==
    LET u == tokenize_next(t, entry.n, entry.category)
    IN  Go(IF entry.push = None THEN u ELSE push(u, entry.push), entry.next)

stack_whitespace_mut_initial(t) ==
    LET c == current_char(t)
    IN  CASE c = None -> Go(tokenize(t, "Whitespace"), None)
          [] c \in Whitespace -> Go(advance(t), "whitespace")
          [] OTHER -> Go(tokenize(t, "Whitespace"), InitialState)

\* whitespace of ruby.rs, javascript.rs and rust.rs
stack_whitespace(t) ==
    LET c == current_char(t)
    IN  CASE c = None -> Go(tokenize(t, "Whitespace"), None)
          [] c \in Whitespace -> Go(advance(t), "whitespace")
          [] OTHER ->
                LET p == pop(tokenize(t, "Whitespace"))
                IN  IF p.next = None THEN Go(p.t, InitialState) ELSE p

\* the `Some(' ') | Some('\n')` arm of initial_state
assignment_whitespace(t) ==
    IF next_non_whitespace_char(t) = "="
    THEN tokenize_next(consume_whitespace(tokenize(t, "Identifier")), 1, "Text")
    ELSE consume_whitespace(t)

\* argument of ruby.rs, javascript.rs and rust.rs
argument(t) ==
    IF starts_with_lexeme(t, Word.true)
    THEN Go(tokenize_next(t, 4, "Boolean"), "argument")
    ELSE IF starts_with_lexeme(t, Word.false)
    THEN Go(tokenize_next(t, 5, "Boolean"), "argument")
    ELSE LET c == current_char(t)
         IN  CASE c = None -> Go(tokenize(t, "Identifier"), None)
               [] c \in Whitespace ->
                     Go(push(tokenize(t, "Identifier"), "argument"), "whitespace")
               [] c \in {"|", ")"} ->
                     Go(tokenize_next(tokenize(t, "Identifier"), 1, "Text"), InitialState)
               [] c \in {"=", ","} ->
                     Go(tokenize_next(tokenize(t, "Identifier"), 1, "Text"), "argument")
               [] OTHER -> Go(advance(t), "argument")

\* identifier; stops are the characters tokenized as Text after the identifier
identifier(t, stops) ==
    LET c == current_char(t)
    IN  CASE c = None -> Go(tokenize(t, "Identifier"), None)
          [] c \in Whitespace -> Go(tokenize(t, "Identifier"), InitialState)
          [] c \in stops ->
                Go(tokenize_next(tokenize(t, "Identifier"), 1, "Text"), InitialState)
          [] OTHER -> Go(advance(t), "identifier")

\* method of ruby.rs (category Method), function of javascript.rs and rust.rs
\* (category Function)
named(t, category, self) ==
    LET c == current_char(t)
    IN  CASE c = None -> Go(tokenize(t, "Whitespace"), None)
          [] c \in Whitespace -> Go(tokenize(t, category), InitialState)
          [] c = "(" -> Go(tokenize_next(tokenize(t, category), 1, "Text"), "argument")
          [] OTHER -> Go(advance(t), self)

comment(t) ==
    LET c == current_char(t)
    IN  CASE c = None -> Go(tokenize(t, "Whitespace"), None)
          [] c = "\n" -> Go(tokenize(t, "Comment"), InitialState)
          [] OTHER -> Go(advance(t), "comment")

integer(t) ==
    LET c == current_char(t)
    IN  CASE c = None -> Go(tokenize(t, "Integer"), None)
          [] c # None /\ is_numeric(c) -> Go(advance(t), "integer")
          [] OTHER -> Go(tokenize(t, "Integer"), InitialState)

symbol(t) ==
    LET c == current_char(t)
    IN  CASE c = None -> Go(tokenize(t, "Literal"), None)
          [] c # None /\ (is_alphanumeric(c) \/ c \in {"_", "?"}) ->
                Go(advance(t), "symbol")
          [] OTHER -> Go(tokenize(t, "Literal"), InitialState)

\* the `Some(c)` arm of initial_state
other_char(t) ==
    Go(advance(t), IF is_numeric(current_char(t)) THEN "integer" ELSE InitialState)

(***************************************************************************)
(* src/lexers/ruby.rs                                                      *)
(***************************************************************************)
ruby_keywords == <<
    [w |-> Word.class, n |-> 5, category |-> "Keyword", push |-> "identifier", next |-> "whitespace"],
    [w |-> Word.module, n |-> 6, category |-> "Keyword", push |-> "identifier", next |-> "whitespace"],
    [w |-> Word.include, n |-> 7, category |-> "Keyword", push |-> "identifier", next |-> "whitespace"],
    [w |-> Word.extend, n |-> 6, category |-> "Keyword", push |-> "identifier", next |-> "whitespace"],
    [w |-> Word.def, n |-> 3, category |-> "Keyword", push |-> "method", next |-> "whitespace"],
    [w |-> Word.do, n |-> 2, category |-> "Keyword", push |-> None, next |-> "whitespace"],
    [w |-> Word.if, n |-> 2, category |-> "Keyword", push |-> None, next |-> "whitespace"],
    [w |-> Word.unless, n |-> 6, category |-> "Keyword", push |-> None, next |-> "whitespace"],
    [w |-> Word.elsif, n |-> 5, category |-> "Keyword", push |-> None, next |-> "whitespace"],
    [w |-> Word.else, n |-> 4, category |-> "Keyword", push |-> None, next |-> "whitespace"],
    [w |-> Word.end, n |-> 3, category |-> "Keyword", push |-> None, next |-> InitialState],
    [w |-> Word.true, n |-> 4, category |-> "Boolean", push |-> None, next |-> InitialState],
    [w |-> Word.false, n |-> 5, category |-> "Boolean", push |-> None, next |-> InitialState],
    [w |-> Word.nil, n |-> 3, category |-> "Literal", push |-> None, next |-> InitialState],
    [w |-> Word.private, n |-> 7, category |-> "Keyword", push |-> None, next |-> InitialState],
    [w |-> Word.begin, n |-> 5, category |-> "Keyword", push |-> None, next |-> InitialState],
    [w |-> Word.rescue, n |-> 6, category |-> "Keyword", push |-> None, next |-> InitialState],
    [w |-> Word.raise, n |-> 5, category |-> "Keyword", push |-> None, next |-> InitialState] >>

ruby_initial_state(t) ==
    LET k == first_lexeme(t, ruby_keywords)
        c == current_char(t)
    IN  IF k # 0 THEN take_lexeme(t, ruby_keywords[k])
        ELSE CASE c = None -> Go(tokenize(t, "Text"), None)
          [] c = "\"" -> Go(advance(tokenize(t, "Text")), "inside_string")
          [] c = "'" -> Go(advance(tokenize(t, "Text")), "inside_single_quote_string")
          [] c = "#" -> Go(push(advance(tokenize(t, "Text")), InitialState), "comment")
          [] c = "|" -> Go(push(tokenize_next(t, 1, "Text"), "argument"), "whitespace")
          [] c = "." -> Go(tokenize_next(t, 1, "Text"), InitialState)
          [] c = "(" -> Go(tokenize_next(tokenize(t, "Call"), 1, "Text"), "argument")
          [] c = "+" -> Go(tokenize_next(t, 1, "Operator"), InitialState)
          [] c \in Whitespace -> Go(assignment_whitespace(t), InitialState)
          [] c = "=" -> Go(tokenize_next(tokenize(t, "Identifier"), 1, "Text"), InitialState)
          [] c = "@" -> Go(tokenize(t, "Text"), "identifier")
          [] c = "[" -> Go(tokenize_next(tokenize(t, "Identifier"), 1, "Text"), InitialState)
          [] c = "]" -> Go(tokenize_next(t, 1, "Text"), InitialState)
          [] c = ":" ->
                IF has_prefix(t, <<":", " ">>)
                THEN Go(consume_whitespace(
                            tokenize_next(tokenize(t, "Literal"), 1, "Text")), InitialState)
                ELSE Go(advance(t), "symbol")
          [] OTHER -> other_char(t)

ruby_inside_string(t) == inside_quotes(t, "\"", "inside_string", InitialState)

ruby_inside_single_quote_string(t) ==
    inside_quotes(t, "'", "inside_single_quote_string", InitialState)

ruby_identifier(t) == identifier(t, {"|", "(", ")", "-", ";", "{", "}"})

ruby_method(t) == named(t, "Method", "method")

ruby_state(f, t) ==
    CASE f = InitialState -> ruby_initial_state(t)
      [] f = "inside_string" -> ruby_inside_string(t)
      [] f = "inside_single_quote_string" -> ruby_inside_single_quote_string(t)
      [] f = "whitespace" -> stack_whitespace(t)
      [] f = "argument" -> argument(t)
      [] f = "identifier" -> ruby_identifier(t)
      [] f = "method" -> ruby_method(t)
      [] f = "comment" -> comment(t)
      [] f = "integer" -> integer(t)
      [] f = "symbol" -> symbol(t)

(***************************************************************************)
(* src/lexers/javascript.rs                                                *)
(***************************************************************************)
javascript_keywords == <<
    [w |-> Word.function, n |-> 8, category |-> "Keyword", push |-> "function", next |-> "whitespace"],
    [w |-> Word.if, n |-> 2, category |-> "Keyword", push |-> None, next |-> "whitespace"],
    [w |-> Word.else, n |-> 4, category |-> "Keyword", push |-> None, next |-> "whitespace"],
    [w |-> Word.return, n |-> 6, category |-> "Keyword", push |-> None, next |-> "whitespace"],
    [w |-> Word.true, n |-> 4, category |-> "Boolean", push |-> None, next |-> InitialState],
    [w |-> Word.false, n |-> 5, category |-> "Boolean", push |-> None, next |-> InitialState] >>

javascript_initial_state(t) ==
    LET k == first_lexeme(t, javascript_keywords)
        c == current_char(t)
    IN  IF k # 0 THEN take_lexeme(t, javascript_keywords[k])
        ELSE IF starts_with_lexeme(t, Word.var)
        THEN Go(consume_whitespace(tokenize_next(t, 3, "Keyword")), "identifier")
        ELSE IF has_prefix(t, <<"/", "/">>)
        THEN Go(tokenize(t, "Text"), "comment")
        ELSE IF has_prefix(t, <<"/", "*">>)
        THEN Go(advance(advance(tokenize(t, "Text"))), "multi_line_comment")
        ELSE CASE c = None -> Go(tokenize(t, "Text"), None)
          [] c = "\"" -> Go(advance(tokenize(t, "Text")), "inside_string")
          [] c = "'" -> Go(advance(tokenize(t, "Text")), "inside_single_quote_string")
          [] c = "." -> Go(tokenize_next(t, 1, "Text"), InitialState)
          [] c = "+" -> Go(tokenize_next(t, 1, "Operator"), InitialState)
          [] c \in Whitespace -> Go(assignment_whitespace(t), InitialState)
          [] c = "=" -> Go(tokenize_next(tokenize(t, "Identifier"), 1, "Text"), InitialState)
          [] c = ":" ->
                IF starts_with_lexeme(t, <<":">>)
                THEN Go(consume_whitespace(
                            tokenize_next(tokenize(t, "Literal"), 1, "Text")), InitialState)
                ELSE Go(advance(t), "symbol")
          [] OTHER -> other_char(t)

javascript_inside_string(t) == inside_quotes(t, "\"", "inside_string", InitialState)

javascript_inside_single_quote_string(t) ==
    inside_quotes(t, "'", "inside_single_quote_string", InitialState)

javascript_identifier(t) == identifier(t, {"|", "(", ")", "-", ";", "{", "}"})

javascript_function(t) == named(t, "Function", "function")

multi_line_comment(t) ==
    IF has_prefix(t, <<"*", "/">>)
    THEN Go(tokenize(advance(advance(t)), "Comment"), InitialState)
    ELSE IF current_char(t) = None
    THEN Go(tokenize(t, "Comment"), None)
    ELSE Go(advance(t), "multi_line_comment")

javascript_state(f, t) ==
    CASE f = InitialState -> javascript_initial_state(t)
      [] f = "inside_string" -> javascript_inside_string(t)
      [] f = "inside_single_quote_string" -> javascript_inside_single_quote_string(t)
      [] f = "whitespace" -> stack_whitespace(t)
      [] f = "argument" -> argument(t)
      [] f = "identifier" -> javascript_identifier(t)
      [] f = "function" -> javascript_function(t)
      [] f = "comment" -> comment(t)
      [] f = "multi_line_comment" -> multi_line_comment(t)
      [] f = "integer" -> integer(t)
      [] f = "symbol" -> symbol(t)

(***************************************************************************)
(* src/lexers/rust.rs                                                      *)
(***************************************************************************)
rust_keywords == <<
    [w |-> Word.pub, n |-> Len(Word.pub), category |-> "Keyword", push |-> None, next |-> InitialState],
    [w |-> Word.let, n |-> Len(Word.let), category |-> "Keyword", push |-> None, next |-> InitialState],
    [w |-> Word.mut, n |-> Len(Word.mut), category |-> "Keyword", push |-> None, next |-> InitialState],
    [w |-> Word.match, n |-> Len(Word.match), category |-> "Keyword", push |-> None, next |-> InitialState],
    [w |-> Word.loop, n |-> Len(Word.loop), category |-> "Keyword", push |-> None, next |-> InitialState],
    [w |-> Word.use, n |-> 3, category |-> "Keyword", push |-> "identifier", next |-> "whitespace"],
    [w |-> Word.mod, n |-> 3, category |-> "Keyword", push |-> "identifier", next |-> "whitespace"],
    [w |-> Word.extern, n |-> 6, category |-> "Keyword", push |-> InitialState, next |-> "whitespace"],
    [w |-> Word.crate, n |-> 5, category |-> "Keyword", push |-> "identifier", next |-> "whitespace"],
    [w |-> Word.for, n |-> 3, category |-> "Keyword", push |-> "identifier", next |-> "whitespace"],
    [w |-> Word.in, n |-> 2, category |-> "Keyword", push |-> "identifier", next |-> "whitespace"],
    [w |-> Word.fn, n |-> 2, category |-> "Keyword", push |-> "function", next |-> "whitespace"] >>

rust_initial_state(t) ==
    LET k == first_lexeme(t, rust_keywords)
        c == current_char(t)
    IN  IF k # 0 THEN take_lexeme(t, rust_keywords[k])
        ELSE IF starts_with_lexeme(t, <<":">>)
        THEN Go(push(tokenize(advance(t), "Key"), "identifier"), "whitespace")
        ELSE IF has_prefix(t, <<":", ":">>)
        THEN Go(tokenize_next(tokenize(t, "Identifier"), 2, "Text"), InitialState)
        ELSE IF starts_with_lexeme(t, <<"/", "/">>)
        THEN Go(t, "comment")
        ELSE CASE c = None -> Go(tokenize(t, "Text"), None)
          [] c = "\"" -> Go(advance(tokenize(t, "Text")), "inside_string")
          [] c = "'" -> Go(advance(tokenize(t, "Text")), "inside_single_quote_string")
          [] c = "|" -> Go(push(tokenize_next(t, 1, "Text"), "argument"), "whitespace")
          [] c = "." -> Go(tokenize_next(tokenize(t, "Identifier"), 1, "Text"), InitialState)
          [] c = "(" -> Go(tokenize_next(tokenize(t, "Call"), 1, "Text"), "argument")
          [] c = "+" -> Go(tokenize_next(t, 1, "Operator"), InitialState)
          [] c \in Whitespace -> Go(assignment_whitespace(t), InitialState)
          [] c = "=" -> Go(tokenize_next(tokenize(t, "Identifier"), 1, "Text"), InitialState)
          [] c = "[" -> Go(tokenize_next(tokenize(t, "Identifier"), 1, "Text"), InitialState)
          [] c = "]" -> Go(tokenize_next(t, 1, "Text"), InitialState)
          [] OTHER -> other_char(t)

rust_inside_string(t) == inside_quotes(t, "\"", "inside_string", InitialState)

rust_inside_single_quote_string(t) ==
    LET c == current_char(t)
    IN  CASE c = None -> Go(tokenize(t, "String"), None)
          [] c = "'" -> Go(tokenize(advance(t), "String"), InitialState)
          [] c = "\\" -> Go(advance(advance(t)), "inside_single_quote_string")
          [] c = ":" -> Go(tokenize(advance(t), "Identifier"), InitialState)
          [] OTHER -> Go(advance(t), "inside_single_quote_string")

rust_identifier(t) == identifier(t, {"|", "(", ")", "-", ";"})

rust_function(t) == named(t, "Function", "function")

rust_state(f, t) ==
    CASE f = InitialState -> rust_initial_state(t)
      [] f = "inside_string" -> rust_inside_string(t)
      [] f = "inside_single_quote_string" -> rust_inside_single_quote_string(t)
      [] f = "whitespace" -> stack_whitespace(t)
      [] f = "argument" -> argument(t)
      [] f = "identifier" -> rust_identifier(t)
      [] f = "function" -> rust_function(t)
      [] f = "comment" -> comment(t)
      [] f = "integer" -> integer(t)

(***************************************************************************)
(* src/lexers/html_erb.rs: the state functions that carve the text         *)
(***************************************************************************)
html_erb_initial_state_mut_order(t) ==
    IF has_prefix(t, <<"<", "%">>)
    THEN Go(tokenize_next(t, 2, "Keyword"), "ruby")
    ELSE IF current_char(t) = None
    THEN Go(tokenize(t, "Text"), None)
    ELSE Go(advance(t), InitialState)

html_erb_initial_state(t) ==
    IF has_prefix(t, <<"<", "%", "=">>)
    THEN Go(tokenize_next(t, 3, "Keyword"), "ruby")
    ELSE IF has_prefix(t, <<"<", "%">>)
    THEN Go(tokenize_next(t, 2, "Keyword"), "ruby")
    ELSE IF current_char(t) = None
    THEN Go(tokenize(t, "Text"), None)
    ELSE Go(advance(t), InitialState)

html_erb_ruby_mut_whitespace(t) ==
    IF has_prefix(t, <<"%", ">">>)
    THEN Go(tokenize_next(tokenize(t, "String"), 2, "Keyword"), InitialState)
    ELSE IF current_char(t) = None
    THEN Go(tokenize(t, "Whitespace"), None)
    ELSE Go(advance(t), "ruby")

html_erb_ruby(t) ==
    IF has_prefix(t, <<"%", ">">>)
    THEN Go(tokenize_next(tokenize(t, "String"), 2, "Keyword"), InitialState)
    ELSE IF current_char(t) = None
    THEN Go(tokenize(t, "String"), None)
    ELSE Go(advance(t), "ruby")

html_erb_state(f, t) ==
    CASE f = InitialState -> html_erb_initial_state(t)
      [] f = "ruby" -> html_erb_ruby(t)

(***************************************************************************)
(* The driving loops (lex)                                                 *)
(***************************************************************************)
Stacked == {"ruby", "javascript", "rust"}      \* lex pops states on None
Flat == {"json", "xml", "default"}             \* lex returns on None

\* what lex does with the result r of a state function: a lexer that keeps a
\* stack of states pops it when the state function returns None
pop_on_none(r) == IF r.next = None THEN pop(r.t) ELSE r

RECURSIVE ruby_run(_, _)
\* the loop of ruby::lex, run to its end
ruby_run(f, t) ==
    LET r == pop_on_none(ruby_state(f, t))
    IN  IF r.next \in {None, Panic} THEN r ELSE ruby_run(r.next, r.t)

RECURSIVE xml_run(_, _)
\* the loop of xml::lex, run to its end
xml_run(f, t) ==
    LET r == xml_state(f, t)
    IN  IF r.next \in {None, Panic} THEN r ELSE xml_run(r.next, r.t)

\* what lex returns after its loop left r: the tokens, unless it panicked
lexed(r) ==
    [panicked |-> r.next = Panic,
     tokens |-> IF r.next = Panic THEN <<>> ELSE tokens_fn(r.t)]

RECURSIVE json_run(_, _)
\* the loop of json::lex, run to its end
json_run(f, t) ==
    LET r == json_state(f, t)
    IN  IF r.next \in {None, Panic} THEN r ELSE json_run(r.next, r.t)

json_lex(d) == lexed(json_run(InitialState, new(d)))
ruby_lex(d) == lexed(ruby_run(InitialState, new(d)))
xml_lex(d) == lexed(xml_run(InitialState, new(d)))

RECURSIVE html_erb_fold_mut_drop(_)
html_erb_fold_mut_drop(ts) ==
    IF ts = <<>> THEN [panicked |-> FALSE, tokens |-> <<>>]
    ELSE LET token == Head(ts)
             part == CASE token.category = "String" -> ruby_lex(token.lexeme)
                       [] token.category = "Text" -> xml_lex(token.lexeme)
                       [] OTHER -> [panicked |-> FALSE, tokens |-> <<>>]
             rest == html_erb_fold_mut_drop(Tail(ts))
         IN  [panicked |-> part.panicked \/ rest.panicked,
              tokens |-> part.tokens \o rest.tokens]

RECURSIVE html_erb_fold_mut_xml(_)
html_erb_fold_mut_xml(ts) ==
    IF ts = <<>> THEN [panicked |-> FALSE, tokens |-> <<>>]
    ELSE LET token == Head(ts)
             part == CASE token.category = "Keyword" ->
                            [panicked |-> FALSE, tokens |-> <<token>>]
                       [] OTHER -> xml_lex(token.lexeme)
             rest == html_erb_fold_mut_xml(Tail(ts))
         IN  [panicked |-> part.panicked \/ rest.panicked,
              tokens |-> part.tokens \o rest.tokens]

RECURSIVE html_erb_fold(_)
\* the fold of html_erb::lex over the carved tokens
html_erb_fold(ts) ==
    IF ts = <<>> THEN [panicked |-> FALSE, tokens |-> <<>>]
    ELSE LET token == Head(ts)
             part == CASE token.category = "Keyword" ->
                            [panicked |-> FALSE, tokens |-> <<token>>]
                       [] token.category = "String" -> ruby_lex(token.lexeme)
                       [] token.category = "Text" -> xml_lex(token.lexeme)
                       [] OTHER -> [panicked |-> FALSE, tokens |-> <<>>]
             rest == html_erb_fold(Tail(ts))
         IN  [panicked |-> part.panicked \/ rest.panicked,
              tokens |-> part.tokens \o rest.tokens]

(***************************************************************************)
(* The scanner as a state machine                                          *)
(***************************************************************************)
\* the Tokenizer object held in the variables
T == [data |-> data, head |-> head, current_token |-> current_token,
      tokens |-> tokens, states |-> states]

SetT(t) ==
    /\ data' = t.data
    /\ head' = t.head
    /\ current_token' = t.current_token
    /\ tokens' = t.tokens
    /\ states' = t.states

\* the Lexer object held in the variables
L == [data |-> data, char_count |-> char_count, token_start |-> token_start,
      token_position |-> token_position, tokens |-> tokens]

SetL(l) ==
    /\ data' = l.data
    /\ char_count' = l.char_count
    /\ token_start' = l.token_start
    /\ token_position' = l.token_position
    /\ tokens' = l.tokens

LexerFields == <<char_count, token_start, token_position>>
TokenizerFields == <<head, current_token, states>>
LoopFields == <<mode, state_function, phase, iterations>>

Alphabet == {"a", " ", "\n", "é"}
Categories == {"Text", "Keyword"}
Amounts == 0..MaxAmount

RECURSIVE Joined(_, _)
\* the texts made of at most n pieces of P
Joined(P, n) ==
    IF n = 0 THEN {<<>>}
    ELSE LET shorter == Joined(P, n - 1)
         IN  shorter \cup {s \o piece : s \in shorter, piece \in P}

RECURSIVE Texts(_, _)
\* the texts over alphabet A of length at most n
Texts(A, n) ==
    IF n = 0 THEN {<<>>}
    ELSE LET shorter == Texts(A, n - 1)
         IN  shorter \cup {Append(s, c) : s \in shorter, c \in A}

Init ==
    /\ mode \in {"tokenizer", "lexer"}
    /\ \E d \in Texts(Alphabet, MaxLen) :
          LET t == new(d)
              l == lexer_new(d)
          IN  /\ data = IF mode = "lexer" THEN l.data ELSE t.data
              /\ tokens = IF mode = "lexer" THEN l.tokens ELSE t.tokens
              /\ head = t.head
              /\ current_token = t.current_token
              /\ states = t.states
              /\ char_count = IF mode = "lexer" THEN l.char_count ELSE 0
              /\ token_start = l.token_start
              /\ token_position = l.token_position
    /\ state_function = None
    /\ phase = "api"
    /\ iterations = 0
    /\ ret = NoRet

Advance ==
    /\ mode \in {"tokenizer", "query", "stack"}
    /\ SetT(advance(T))
    /\ ret' = Call("advance")
    /\ UNCHANGED <<LexerFields, LoopFields>>

Tokenize(category) ==
    /\ mode \in {"tokenizer", "query", "stack"}
    /\ SetT(tokenize(T, category))
    /\ ret' = Call("tokenize")
    /\ UNCHANGED <<LexerFields, LoopFields>>

TokenizeNext(amount, category) ==
    /\ mode \in {"tokenizer", "query", "stack"}
    /\ SetT(tokenize_next(T, amount, category))
    /\ ret' = Call("tokenize_next")
    /\ UNCHANGED <<LexerFields, LoopFields>>

ConsumeWhitespace ==
    /\ mode \in {"tokenizer", "query", "stack"}
    /\ SetT(consume_whitespace(T))
    /\ ret' = Call("consume_whitespace")
    /\ UNCHANGED <<LexerFields, LoopFields>>

TokensCall ==
    /\ mode \in {"tokenizer", "query", "stack"}
    /\ ret' = [op |-> "tokens", val |-> tokens_fn(T)]
    /\ SetT(after_query(T))
    /\ UNCHANGED <<LexerFields, LoopFields>>

LexerAdvance ==
    /\ mode = "lexer"
    /\ SetL(lexer_advance(L))
    /\ ret' = Call("advance")
    /\ UNCHANGED <<TokenizerFields, LoopFields>>

LexerTokenize(category) ==
    /\ mode = "lexer"
    /\ SetL(lexer_tokenize(L, category))
    /\ ret' = Call("tokenize")
    /\ UNCHANGED <<TokenizerFields, LoopFields>>

LexerTokenizeNext(amount, category) ==
    /\ mode = "lexer"
    /\ SetL(lexer_tokenize_next(L, amount, category))
    /\ ret' = Call("tokenize_next")
    /\ UNCHANGED <<TokenizerFields, LoopFields>>

Next ==
    \/ Advance
    \/ \E c \in Categories : Tokenize(c)
    \/ \E n \in Amounts, c \in Categories : TokenizeNext(n, c)
    \/ ConsumeWhitespace
    \/ TokensCall
    \/ LexerAdvance
    \/ \E c \in Categories : LexerTokenize(c)
    \/ \E n \in Amounts, c \in Categories : LexerTokenizeNext(n, c)

Spec == Init /\ [][Next]_vars

TypeOK ==
    /\ head \in 0..Len(data)
    /\ Len(current_token) <= head

(***************************************************************************)
(* The queries of the tokenizer (specification QuerySpec): a query leaves  *)
(* its argument and result in ret                                          *)
(***************************************************************************)
QueryPieces == {Word.end, <<"i", "n", "g">>, <<" ">>, <<"\n">>, <<",">>, <<"é">>}
Words == {Word.end, <<"e", "n">>, <<"i">>, <<>>, <<"é">>}

QueryInit ==
    /\ mode = "query"
    /\ data \in Joined(QueryPieces, MaxPieces)
    /\ head = 0
    /\ current_token = <<>>
    /\ tokens = <<>>
    /\ states = <<>>
    /\ char_count = 0
    /\ token_start = 0
    /\ token_position = 0
    /\ state_function = None
    /\ phase = "api"
    /\ iterations = 0
    /\ ret = NoRet

StartsWithLexeme(lexeme) ==
    /\ mode = "query"
    /\ ret' = [op |-> "starts_with_lexeme", arg |-> lexeme,
               val |-> starts_with_lexeme(T, lexeme)]
    /\ SetT(after_query(T))
    /\ UNCHANGED <<LexerFields, LoopFields>>

Prefixes == Words \cup {<<",", ",">>}

CurrentChar ==
    /\ mode = "query"
    /\ ret' = [op |-> "current_char", val |-> current_char(T)]
    /\ SetT(after_query(T))
    /\ UNCHANGED <<LexerFields, LoopFields>>

HasPrefix(prefix) ==
    /\ mode = "query"
    /\ ret' = [op |-> "has_prefix", arg |-> prefix, val |-> has_prefix(T, prefix)]
    /\ SetT(after_query(T))
    /\ UNCHANGED <<LexerFields, LoopFields>>

NextNonWhitespaceChar ==
    /\ mode = "query"
    /\ ret' = [op |-> "next_non_whitespace_char", val |-> next_non_whitespace_char(T)]
    /\ SetT(after_query(T))
    /\ UNCHANGED <<LexerFields, LoopFields>>

QueryNext ==
    \/ Advance
    \/ Tokenize("Text")
    \/ \E w \in Words : StartsWithLexeme(w)
    \/ CurrentChar
    \/ \E p \in Prefixes : HasPrefix(p)
    \/ NextNonWhitespaceChar
    \/ TokensCall

QuerySpec == QueryInit /\ [][QueryNext]_vars

(***************************************************************************)
(* Properties of the scanner operations (specification Spec)               *)
(***************************************************************************)
\* tail: the start of the pending span, as a character position
TailPos == head - Len(current_token)

\* the characters of data in [from, to)
Span(from, to) == SubSeq(data, from + 1, to)

LastOf(ts) == ts[Len(ts)]

\* C1: after any sequence of advance, tokenize, tokenize_next and
\* consume_whitespace calls, the lexemes of the sequence returned by tokens(),
\* concatenated in order, are the input.
C1_TokensLossless ==
    (mode = "tokenizer" /\ ret.op = "tokens") => Concat(ret.val) = data

C1_Witness ==
    /\ mode = "tokenizer" /\ ret.op = "tokens"
    /\ Len(tokens) >= 1 /\ current_token # <<>> /\ head < Len(data)
    /\ \E i \in DOMAIN tokens : tokens[i].category = "Whitespace"

\* C3: no committed token and no token returned by tokens() has an empty
\* lexeme.
C3_NoEmptyLexeme ==
    /\ \A i \in DOMAIN tokens : Len(tokens[i].lexeme) >= 1
    /\ ret.op = "tokens" => \A i \in DOMAIN ret.val : Len(ret.val[i].lexeme) >= 1

\* tokenize was called with no pending span and tokens() was called with
\* nothing left to flush
C3_Witness ==
    /\ mode = "tokenizer" /\ ret.op = "tokens"
    /\ tokens # <<>> /\ current_token = <<>> /\ head = Len(data)
    /\ ret.val = tokens

\* C5: tokens() returns the committed tokens followed by exactly one Text
\* token holding the pending span and the unscanned remainder when these are
\* not both empty, and by nothing otherwise.
C5_TokensFlush ==
    (mode = "tokenizer" /\ ret.op = "tokens") =>
        LET rest == Span(TailPos, Len(data))
        IN  /\ SubSeq(ret.val, 1, Len(tokens)) = tokens
            /\ IF rest # <<>>
               THEN /\ Len(ret.val) = Len(tokens) + 1
                    /\ LastOf(ret.val) = Token(rest, "Text")
               ELSE Len(ret.val) = Len(tokens)

\* a pending span and an unscanned remainder are flushed as one token
C5_Witness ==
    /\ mode = "tokenizer" /\ ret.op = "tokens"
    /\ tokens # <<>> /\ current_token # <<>> /\ head < Len(data)
    /\ Len(ret.val) = Len(tokens) + 1
    /\ Len(LastOf(ret.val).lexeme) >= 2

\* C6: tokenize(c) with a non-empty pending span appends exactly one token,
\* of category c, whose lexeme is the span [tail, head) of the input, empties
\* the pending span and leaves head unchanged.
C6_TokenizeCommits ==
    [][\A c \in Categories :
          /\ (Tokenize(c) /\ current_token # <<>>) =>
                /\ tokens' = Append(tokens, Token(Span(TailPos, head), c))
                /\ current_token' = <<>>
                /\ head' = head
          /\ (LexerTokenize(c) /\ token_start # token_position) =>
                /\ tokens' = Append(tokens, Token(Span(token_start, token_position), c))
                /\ token_start' = token_position
                /\ token_position' = token_position]_vars

C6_Witness ==
    /\ mode = "tokenizer" /\ ret.op = "tokenize"
    /\ head >= 2 /\ tokens # <<>>
    /\ LastOf(tokens) = Token(Span(head - 2, head), "Keyword")
    /\ current_token = <<>> /\ head < Len(data)

\* C7: tokenize_next(n, c) commits a pending span as a Text token of its own,
\* then the next min(n, remaining) characters as one token of category c;
\* with n = 0 or nothing remaining it adds no token of category c.
C7_TokenizeNext ==
    [][\A n \in Amounts, c \in Categories :
          /\ TokenizeNext(n, c) =>
                LET m == Min(n, Len(data) - head)
                    flushed == IF current_token # <<>>
                               THEN <<Token(Span(TailPos, head), "Text")>> ELSE <<>>
                    taken == IF m > 0
                             THEN <<Token(Span(head, head + m), c)>> ELSE <<>>
                IN  /\ tokens' = tokens \o flushed \o taken
                    /\ head' = head + m
                    /\ current_token' = <<>>
          /\ LexerTokenizeNext(n, c) =>
                LET m == Min(n, char_count - token_position)
                    flushed == IF token_start # token_position
                               THEN <<Token(Span(token_start, token_position), "Text")>>
                               ELSE <<>>
                    taken == IF m > 0
                             THEN <<Token(Span(token_position, token_position + m), c)>>
                             ELSE <<>>
                IN  /\ tokens' = tokens \o flushed \o taken
                    /\ token_position' = token_position + m
                    /\ token_start' = token_position']_vars

\* a pending span was flushed as Text before a Keyword token was taken
C7_Witness ==
    /\ mode = "tokenizer" /\ ret.op = "tokenize_next"
    /\ Len(tokens) >= 2
    /\ tokens[Len(tokens) - 1].category = "Text"
    /\ LastOf(tokens).category = "Keyword"
    /\ head < Len(data)

\* C8: tokenize_next(n, c) with n larger than the number of characters left
\* stops at the end of the input and commits the whole remainder.
C8_TokenizeNextClamps ==
    [][\A n \in Amounts, c \in Categories :
          /\ (TokenizeNext(n, c) /\ n > Len(data) - head) =>
                /\ head' = Len(data)
                /\ head < Len(data) => LastOf(tokens') = Token(Span(head, Len(data)), c)
          /\ (LexerTokenizeNext(n, c) /\ n > char_count - token_position) =>
                /\ token_position' = char_count
                /\ token_position < char_count =>
                      LastOf(tokens') = Token(Span(token_position, char_count), c)]_vars

\* a tokenize_next took a remainder of two characters or more
C8_Witness ==
    /\ ret.op = "tokenize_next"
    /\ Len(tokens) = 2 /\ Len(LastOf(tokens).lexeme) >= 2
    /\ LastOf(tokens).category = "Keyword"
    /\ IF mode = "tokenizer" THEN head = Len(data) ELSE token_position = char_count

\* C9: advance() moves head forward by one character when data remains and
\* changes nothing at the end of the input; it never changes the committed
\* tokens or tail.
C9_Advance ==
    [][/\ Advance =>
            /\ head < Len(data) => head' = head + 1
            /\ head >= Len(data) => UNCHANGED <<head, current_token>>
            /\ TailPos' = TailPos
            /\ UNCHANGED <<tokens, data, states>>
       /\ LexerAdvance =>
            /\ token_position < char_count => token_position' = token_position + 1
            /\ token_position >= char_count => token_position' = token_position
            /\ UNCHANGED <<tokens, data, token_start, char_count>>]_vars

\* advance was called at the end of the input, with tokens committed
C9_Witness ==
    /\ mode = "tokenizer" /\ ret.op = "advance"
    /\ head = Len(data) /\ Len(current_token) = 1 /\ tokens # <<>>

\* C10: for an ASCII word w, starts_with_lexeme(w) is true exactly when the
\* unscanned input begins with w and the character right after w is a space,
\* a newline, a comma or the end of the input.
C10_StartsWithLexeme ==
    (ret.op = "starts_with_lexeme" /\ ByteLen(ret.arg) = Len(ret.arg)) =>
        LET w == ret.arg
            rest == Span(head, Len(data))
        IN  ret.val <=>
               /\ Len(rest) >= Len(w)
               /\ SubSeq(rest, 1, Len(w)) = w
               /\ Len(rest) > Len(w) => rest[Len(w) + 1] \in {" ", "\n", ","}

\* starts_with_lexeme("end") was true in front of a comma
C10_Witness ==
    /\ ret.op = "starts_with_lexeme" /\ ret.arg = Word.end /\ ret.val
    /\ Len(data) > head + 3 /\ data[head + 4] = ","

\* starts_with_lexeme("end") was false on "ending"
C10_WitnessPrefix ==
    /\ ret.op = "starts_with_lexeme" /\ ret.arg = Word.end /\ ~ret.val
    /\ head = 0 /\ data = Word.end \o <<"i", "n", "g">>

RECURSIVE WhitespaceRun(_)
\* the number of spaces and newlines in a row in data from position p on
WhitespaceRun(p) ==
    IF p < Len(data) /\ data[p + 1] \in Whitespace THEN 1 + WhitespaceRun(p + 1) ELSE 0

\* C11: consume_whitespace() called with a space or newline as the current
\* character commits a pending span as a Text token, then commits the whole
\* run of spaces and newlines at head as one Whitespace token; afterwards the
\* current character is not a space or newline.
C11_ConsumeWhitespace ==
    [][(ConsumeWhitespace /\ current_char(T) \in Whitespace) =>
          LET n == WhitespaceRun(head)
              flushed == IF current_token # <<>>
                         THEN <<Token(Span(TailPos, head), "Text")>> ELSE <<>>
          IN  /\ tokens' = tokens \o flushed \o <<Token(Span(head, head + n), "Whitespace")>>
              /\ head' = head + n
              /\ current_token' = <<>>
              /\ head' = Len(data) \/ data[head' + 1] \notin Whitespace]_vars

\* a pending span was committed as Text and a run of two as Whitespace
C11_Witness ==
    /\ mode = "tokenizer" /\ ret.op = "consume_whitespace"
    /\ head = 3 /\ current_token = <<>>
    /\ tokens = <<Token(<<data[1]>>, "Text"), Token(<<" ", "\n">>, "Whitespace")>>

\* C19: a tokenizer created by new(data) starts with head and tail at
\* position 0, no committed tokens and an empty state stack, whatever the data.
C19_New ==
    ret.op = "new" =>
        /\ tokens = <<>>
        /\ mode = "tokenizer" => (head = 0 /\ TailPos = 0 /\ states = <<>>)
        /\ mode = "lexer" =>
              (token_start = 0 /\ token_position = 0 /\ char_count = Len(data))

\* a tokenizer was created from data that begins with a two-byte character
C19_Witness ==
    /\ ret.op = "new" /\ mode = "tokenizer"
    /\ Len(data) = 3 /\ data[1] = "é"

\* C21: in every reachable state, after any sequence of calls with any
\* amounts, tail <= head <= length (token_start <= token_position <=
\* char_count).
C21_Positions ==
    /\ mode = "tokenizer" => (0 <= TailPos /\ TailPos <= head /\ head <= Len(data))
    /\ mode = "lexer" =>
          /\ 0 <= token_start /\ token_start <= token_position
          /\ token_position <= char_count /\ char_count = Len(data)

\* tail < head = length: a span is pending at the end of the input
C21_Witness ==
    /\ ret.op = "advance" /\ Len(tokens) = 1
    /\ IF mode = "tokenizer"
       THEN TailPos = 2 /\ head = 3 /\ Len(data) = 3
       ELSE token_start = 2 /\ token_position = 3 /\ char_count = 3

\* C22: no operation moves head backward or changes the input, and tail
\* changes only in a step that commits a token, where it becomes equal to
\* head.
C22_Monotonic ==
    [][/\ data' = data
       /\ mode = "tokenizer" =>
             /\ head' >= head
             /\ TailPos' # TailPos =>
                   (Len(tokens') > Len(tokens) /\ TailPos' = head')
       /\ mode = "lexer" =>
             /\ token_position' >= token_position
             /\ token_start' # token_start =>
                   (Len(tokens') > Len(tokens) /\ token_start' = token_position')]_vars

\* tail has moved up to head twice and input remains
C22_Witness ==
    /\ ret.op = "tokenize" /\ Len(tokens) = 2 /\ Len(data) = 3
    /\ IF mode = "tokenizer"
       THEN TailPos = 2 /\ head = 2
       ELSE token_start = 2 /\ token_position = 2

\* C27: consume_whitespace() commits any pending span as a Text token whether
\* or not the current character is a space or newline: after it returns there
\* is no pending span, and when no whitespace was consumed no Whitespace token
\* is added.
C27_AlwaysFlushes ==
    [][ConsumeWhitespace =>
          LET flushed == IF current_token # <<>>
                         THEN <<Token(Span(TailPos, head), "Text")>> ELSE <<>>
          IN  /\ current_token' = <<>>
              /\ SubSeq(tokens', 1, Len(tokens) + Len(flushed)) = tokens \o flushed
              /\ head' = head => tokens' = tokens \o flushed]_vars

\* C27, amended: consume_whitespace() commits a pending span as a Text token
\* only when the current character is a space or newline, and then leaves no
\* pending span; when the current character is not a space or newline, or
\* the input is at its end, it changes nothing: the pending span stays pending
\* and no token is added.
C27_FlushesAtWhitespace ==
    [][ConsumeWhitespace =>
          IF current_char(T) \in Whitespace
          THEN /\ current_token' = <<>>
               /\ current_token # <<>> =>
                     /\ Len(tokens') = Len(tokens) + 2
                     /\ tokens'[Len(tokens) + 1] = Token(Span(TailPos, head), "Text")
               /\ current_token = <<>> => Len(tokens') = Len(tokens) + 1
          ELSE UNCHANGED <<head, current_token, tokens>>]_vars

\* consume_whitespace has returned before a character that is not whitespace
\* and the span pending before the call is still pending
C27_Witness ==
    /\ mode = "tokenizer" /\ ret.op = "consume_whitespace"
    /\ current_token = <<"a">> /\ head = 1 /\ Len(data) = 2 /\ data[2] = "é"
    /\ tokens = <<>>

\* C28: starts_with_lexeme(w) inspects the character right after w also when
\* w contains multi-byte characters: it is true exactly when the unscanned
\* input begins with w and the character one past the last character of w is
\* a space, a newline, a comma or the end of the input.
C28_MultiByteLexeme ==
    (ret.op = "starts_with_lexeme" /\ ByteLen(ret.arg) > Len(ret.arg)) =>
        LET w == ret.arg
            rest == Span(head, Len(data))
        IN  ret.val <=>
               /\ Len(rest) >= Len(w)
               /\ SubSeq(rest, 1, Len(w)) = w
               /\ Len(rest) > Len(w) => rest[Len(w) + 1] \in {" ", "\n", ","}

\* C40: the committed token list is append-only: every operation leaves the
\* tokens committed before it in place and in order, so the list before a
\* step is a prefix of the list after it, and of the result of tokens().
C40_AppendOnly ==
    [][/\ Len(tokens') >= Len(tokens)
       /\ SubSeq(tokens', 1, Len(tokens)) = tokens
       /\ ret'.op = "tokens" =>
             /\ Len(ret'.val) >= Len(tokens)
             /\ SubSeq(ret'.val, 1, Len(tokens)) = tokens]_vars

\* tokens() returned two committed tokens and the flushed rest after them
C40_Witness ==
    /\ mode = "tokenizer" /\ ret.op = "tokens"
    /\ Len(tokens) = 2 /\ tokens[1] # tokens[2]
    /\ Len(ret.val) = 3 /\ SubSeq(ret.val, 1, 2) = tokens

(***************************************************************************)
(* Properties of the queries (specification QuerySpec)                     *)
(***************************************************************************)
\* C15: current_char() returns the character at head, whatever the pending
\* span is, and none exactly when head is at the end of the input.
C15_CurrentChar ==
    ret.op = "current_char" =>
        /\ head < Len(data) => ret.val = data[head + 1]
        /\ ret.val = None <=> head = Len(data)

\* current_char returned a two-byte character behind a pending span that
\* begins with another character
C15_Witness ==
    /\ ret.op = "current_char" /\ ret.val = "é"
    /\ current_token # <<>> /\ Head(current_token) # "é"

\* C16: has_prefix(p) is true exactly when the input from head on begins with
\* p; it is false when fewer characters remain than p has and true for the
\* empty p.
C16_HasPrefix ==
    ret.op = "has_prefix" =>
        LET p == ret.arg
            rest == Span(head, Len(data))
        IN  /\ ret.val <=> (Len(rest) >= Len(p) /\ SubSeq(rest, 1, Len(p)) = p)
            /\ Len(rest) < Len(p) => ~ret.val
            /\ p = <<>> => ret.val

\* has_prefix(",,") was false on a last "," of the input
C16_Witness ==
    /\ ret.op = "has_prefix" /\ ret.arg = <<",", ",">> /\ ~ret.val
    /\ head = Len(data) - 1 /\ data[Len(data)] = ","

\* C17: next_non_whitespace_char() returns the first character at or after
\* head that is neither a space nor a newline, and none when only spaces and
\* newlines, or nothing, remain.
C17_NextNonWhitespaceChar ==
    ret.op = "next_non_whitespace_char" =>
        LET n == WhitespaceRun(head)
        IN  IF head + n < Len(data)
            THEN ret.val = data[head + n + 1]
            ELSE ret.val = None

\* next_non_whitespace_char looked past a space and found a character
C17_Witness ==
    /\ ret.op = "next_non_whitespace_char" /\ ret.val = "e"
    /\ head = 0 /\ Len(data) = 4 /\ data[1] = " "

\* C18: current_char, has_prefix, starts_with_lexeme, next_non_whitespace_char
\* and tokens leave the tokenizer as it was: the input, head, the pending
\* span, the committed tokens and the state stack.
C18_QueriesChangeNothing ==
    [][(ret'.op \in {"current_char", "has_prefix", "starts_with_lexeme",
                     "next_non_whitespace_char", "tokens"})
          => UNCHANGED <<data, head, current_token, tokens, states>>]_vars

\* a query was made with a token committed, a span pending and input left
C18_Witness ==
    /\ ret.op = "next_non_whitespace_char"
    /\ tokens # <<>> /\ current_token # <<>> /\ head < Len(data)

(***************************************************************************)
(* The state stack of the tokenizer (specification StackSpec): states is a *)
(* public Vec, the lexers call states.push and states.pop on it between    *)
(* the tokenizer's own operations                                          *)
(***************************************************************************)
StackPieces == {<<"a">>, <<" ">>}
StackStates == {InitialState, "whitespace"}

StackInit ==
    /\ mode = "stack"
    /\ \E d \in Joined(StackPieces, MaxPieces) :
          LET t == new(d)
          IN  /\ data = t.data
              /\ head = t.head
              /\ current_token = t.current_token
              /\ tokens = t.tokens
              /\ states = t.states
    /\ char_count = 0
    /\ token_start = 0
    /\ token_position = 0
    /\ state_function = None
    /\ phase = "api"
    /\ iterations = 0
    /\ ret = NoRet

Push(state) ==
    /\ mode = "stack"
    /\ Len(states) < MaxStack
    /\ SetT(push(T, state))
    /\ ret' = [op |-> "push", arg |-> state]
    /\ UNCHANGED <<LexerFields, LoopFields>>

Pop ==
    /\ mode = "stack"
    /\ LET r == pop(T)
       IN  /\ SetT(r.t)
           /\ ret' = [op |-> "pop", val |-> r.next]
    /\ UNCHANGED <<LexerFields, LoopFields>>

StackNext ==
    \/ \E s \in StackStates : Push(s)
    \/ Pop
    \/ Advance
    \/ Tokenize("Text")
    \/ TokenizeNext(2, "Text")
    \/ ConsumeWhitespace
    \/ TokensCall

StackSpec == StackInit /\ [][StackNext]_vars

(***************************************************************************)
(* The lexers as state machines (specification LexSpec): one step is one   *)
(* iteration of the loop of lex                                            *)
(***************************************************************************)
Langs == Flat \cup Stacked \cup {"html_erb"}

Pieces(lang) ==
    CASE lang = "default" ->
            {<<"a">>, <<" ">>, <<"\n">>, <<"é">>, <<"a", " ", "b">>, <<" ", "\n">>}
      [] lang = "json" ->
            {<<"{">>, <<"}">>, <<"[">>, <<"]">>, <<":">>, <<" ">>, <<"\n">>, <<"\"">>,
             <<"\\">>, <<"x">>, <<"é">>, <<"€", "{">>, <<"x", "\"">>, <<"\"", "\\">>,
             <<"\"", "\"">>, <<"é", " ">>, Word.true, Word.false,
             Word.null}
      [] lang = "xml" ->
            {<<"<">>, <<"<", "/">>, <<">">>, <<"/", ">">>, <<"/">>, <<" ">>, <<"\n">>,
             <<"=">>, <<"\"">>, <<"\\">>, <<"a">>, <<"é">>, <<"<", "a", " ">>,
             <<"\"", "a">>}
      [] lang = "ruby" ->
            {Word.class, Word.module, Word.def, Word.do, Word.if, Word.else, Word.elsif, Word.end, Word.true,
             Word.false, Word.nil,
             <<"\"">>, <<"'">>, <<"\\">>, <<"#">>, <<"|">>, <<".">>, <<"(">>, <<")">>,
             <<"+">>, <<" ">>, <<"\n">>, <<"=">>, <<"@">>, <<"[">>, <<"]">>, <<":">>,
             <<",">>, <<";">>, <<"1">>, <<"²">>, <<"x">>, <<"é">>, <<"?">>, <<" ", "x">>,
             <<"#", "\n">>}
      [] lang = "javascript" ->
            {Word.function, Word.if, Word.else, Word.return, Word.true, Word.false, Word.var,
             <<"/", "/">>, <<"/", "*">>, <<"*", "/">>, <<"/">>, <<"*">>,
             <<"\"">>, <<"'">>, <<"\\">>, <<".">>, <<"(">>, <<")">>, <<"|">>,
             <<"+">>, <<" ">>, <<"\n">>, <<"=">>, <<":">>, <<",">>, <<"{">>,
             <<"1">>, <<"x">>, <<"é">>, <<"_">>}
      [] lang = "rust" ->
            {Word.pub, Word.let, Word.match, Word.use, Word.mod, Word.extern, Word.crate, Word.for, Word.in, Word.fn,
             Word.true, Word.false, <<"/", "/">>, <<":", ":">>, <<":">>,
             <<"\"">>, <<"'">>, <<"\\">>, <<"|">>, <<".">>, <<"(">>, <<")">>,
             <<"+">>, <<" ">>, <<"\n">>, <<"=">>, <<"[">>, <<"]">>, <<",">>, <<";">>,
             <<"1">>, <<"x">>, <<"é">>}
      [] lang = "html_erb" ->
            {<<"<", "%", "=">>, <<"<", "%">>, <<"%", ">">>, <<"<">>, <<"%">>, <<">">>,
             <<"=">>, <<" ">>, <<"a">>, <<"é">>, <<"<", "a", ">">>, Word.end,
             <<"<", "a", ">", "<", "%">>}

LexInit ==
    /\ mode \in Langs
    /\ data \in Joined(Pieces(mode), MaxPieces)
    /\ head = 0
    /\ current_token = <<>>
    /\ tokens = <<>>
    /\ states = <<>>
    /\ char_count = 0
    /\ token_start = 0
    /\ token_position = 0
    /\ state_function = InitialState
    /\ phase = "running"
    /\ iterations = 0
    /\ ret = NoRet

\* one iteration of the loop of lex that left r; on None, lex returns
\* tokenizer.tokens()
Iterate(r) ==
    /\ phase = "running"
    /\ SetT(r.t)
    /\ CASE r.next = None ->
              /\ phase' = "returned"
              /\ ret' = [op |-> "lex", val |-> tokens_fn(r.t)]
              /\ UNCHANGED state_function
         [] r.next = Panic ->
              /\ phase' = "panicked"
              /\ UNCHANGED <<state_function, ret>>
         [] OTHER ->
              /\ state_function' = r.next
              /\ UNCHANGED <<phase, ret>>
    /\ iterations' = iterations + 1
    /\ UNCHANGED <<mode, LexerFields>>

DefaultLex ==
    /\ mode = "default"
    /\ Iterate(default_state(state_function, T))

JsonLex ==
    /\ mode = "json"
    /\ Iterate(json_state(state_function, T))

XmlLex ==
    /\ mode = "xml"
    /\ Iterate(xml_state(state_function, T))

RubyLex ==
    /\ mode = "ruby"
    /\ Iterate(pop_on_none(ruby_state(state_function, T)))

JavascriptLex ==
    /\ mode = "javascript"
    /\ Iterate(pop_on_none(javascript_state(state_function, T)))

RustLex ==
    /\ mode = "rust"
    /\ Iterate(pop_on_none(rust_state(state_function, T)))

\* one iteration of the first loop of html_erb::lex; on None it breaks
HtmlErbCarve ==
    /\ mode = "html_erb"
    /\ phase = "running"
    /\ LET r == html_erb_state(state_function, T)
       IN  /\ SetT(r.t)
           /\ IF r.next = None
              THEN phase' = "carved" /\ UNCHANGED state_function
              ELSE state_function' = r.next /\ UNCHANGED phase
    /\ iterations' = iterations + 1
    /\ UNCHANGED <<mode, LexerFields, ret>>

\* the fold of html_erb::lex over tokenizer.tokens()
HtmlErbFold ==
    /\ mode = "html_erb"
    /\ phase = "carved"
    /\ LET folded == html_erb_fold(tokens_fn(T))
       IN  IF folded.panicked
           THEN phase' = "panicked" /\ UNCHANGED ret
           ELSE phase' = "returned" /\ ret' = [op |-> "lex", val |-> folded.tokens]
    /\ UNCHANGED <<mode, data, tokens, TokenizerFields, LexerFields, state_function,
                   iterations>>

LexNext ==
    \/ DefaultLex
    \/ JsonLex
    \/ XmlLex
    \/ RubyLex
    \/ JavascriptLex
    \/ RustLex
    \/ HtmlErbCarve
    \/ HtmlErbFold

LexSpec == LexInit /\ [][LexNext]_vars

(***************************************************************************)
(* Properties of the lexers (specification LexSpec)                        *)
(***************************************************************************)
FormatLexers == Flat \cup Stacked

\* C2: for each format lexer (json, xml, ruby, javascript, rust, default) and
\* every input, lex returns and the lexemes of the tokens it returns,
\* concatenated in order, are the input.
C2_LexLossless ==
    mode \in FormatLexers =>
        /\ phase # "panicked"
        /\ phase = "returned" => Concat(ret.val) = data

\* what holds of lex instead: a call that returns is lossless
C2_ReturnedLossless ==
    (mode \in FormatLexers /\ phase = "returned") => Concat(ret.val) = data

\* C4: the driving loop of every format lexer, and the carving loop of
\* html_erb, terminates on every input: it makes at most two iterations for
\* each character of the input and one more, so no cycle of iterations
\* without progress exists.
C4_LexTerminates == iterations <= 2 * Len(data) + 1

\* a lexer that pushes states has returned after committing several tokens
C4_Witness ==
    /\ mode \in Stacked \cup {"xml"} /\ phase = "returned"
    /\ Len(tokens) >= 3 /\ head = Len(data)

\* the characters json.rs has no arm for and that begin no literal
Unrecognised == {"x", "é", "€", "\\"}

\* d is made of braces, brackets, spaces, newlines and unrecognised characters
Garbage(d) ==
    \A i \in DOMAIN d : d[i] \in {"{", "}", "[", "]"} \cup Whitespace \cup Unrecognised

CategoryOf(c) ==
    IF c \in {"{", "}"} THEN "Brace"
    ELSE IF c \in {"[", "]"} THEN "Bracket"
    ELSE IF c \in Whitespace THEN "Whitespace"
    ELSE "Text"

RECURSIVE RunOf(_, _)
\* the length of the longest prefix of d whose characters have category k
RunOf(d, k) ==
    IF d # <<>> /\ CategoryOf(Head(d)) = k THEN 1 + RunOf(Tail(d), k) ELSE 0

RECURSIVE GarbageTokens(_)
\* every brace and bracket a token of its own, every maximal run of spaces and
\* newlines one Whitespace token, every maximal run of the rest one Text token
GarbageTokens(d) ==
    IF d = <<>> THEN <<>>
    ELSE LET k == CategoryOf(Head(d))
             n == IF k \in {"Brace", "Bracket"} THEN 1 ELSE RunOf(d, k)
         IN  <<Token(SubSeq(d, 1, n), k)>> \o GarbageTokens(SubSeq(d, n + 1, Len(d)))

\* C12: on input made of braces, brackets, spaces, newlines and unrecognised
\* characters json::lex does not fail, and it returns every brace and bracket
\* as a token of its own, every maximal run of spaces and newlines as one
\* Whitespace token and every maximal run of other characters as one Text
\* token.
C12_JsonGarbage ==
    (mode = "json" /\ Garbage(data)) =>
        /\ phase # "panicked"
        /\ phase = "returned" => ret.val = GarbageTokens(data)

\* what holds of json::lex instead: a call on such input that returns, returns
\* these tokens
C12_ReturnedGarbage ==
    (mode = "json" /\ Garbage(data) /\ phase = "returned") =>
        ret.val = GarbageTokens(data)

RECURSIVE OpenQuote(_, _, _)
\* reads d from index i on as json.rs does, open being the index of the quote
\* that opened the string index i is in (0 outside a string): the index of the
\* quote that opens the string d ends in, 0 when d does not end inside a string
OpenQuote(d, i, open) ==
    IF i > Len(d) THEN open
    ELSE IF open = 0
    THEN OpenQuote(d, i + 1, IF d[i] = "\"" THEN i ELSE 0)
    ELSE IF d[i] = "\\" THEN OpenQuote(d, i + 2, open)
    ELSE OpenQuote(d, i + 1, IF d[i] = "\"" THEN 0 ELSE open)

\* s begins with a quote that nothing in s closes
Unclosed(s) == s # <<>> /\ Head(s) = "\"" /\ OpenQuote(s, 1, 0) = 1

\* xml::lex, left in inside_string by the end of the input, returns the open
\* string as one String token
C13_XmlOpenString ==
    (mode = "xml" /\ state_function = "inside_string" /\ head = Len(data)) =>
        /\ phase # "panicked"
        /\ phase = "returned" =>
              /\ Concat(ret.val) = data
              /\ LastOf(ret.val).category = "String"
              /\ Unclosed(LastOf(ret.val).lexeme)

\* json::lex, when it returns from input that ends inside a string, returns
\* the open string as one String token
C13_ReturnedOpenString ==
    (mode = "json" /\ OpenQuote(data, 1, 0) # 0 /\ phase = "returned") =>
        /\ Concat(ret.val) = data
        /\ LastOf(ret.val) =
              Token(SubSeq(data, OpenQuote(data, 1, 0), Len(data)), "String")

\* C13: when the input ends inside a double-quoted string, json::lex and
\* xml::lex finish normally and the run from the opening quote to the end of
\* the input is exactly one token, of category String.
C13_OpenString ==
    /\ (mode = "json" /\ OpenQuote(data, 1, 0) # 0) => phase # "panicked"
    /\ C13_ReturnedOpenString
    /\ C13_XmlOpenString

\* C14: for every input, html_erb::lex returns and the lexemes of the tokens
\* it returns, concatenated in order, are the input (ruby::lex and xml::lex
\* are lossless on every segment carved out of it).
C14_HtmlErbLossless ==
    mode = "html_erb" =>
        /\ phase # "panicked"
        /\ phase = "returned" => Concat(ret.val) = data

\* the ruby segment of <%=end was handed to ruby::lex
C14_Witness ==
    /\ mode = "html_erb" /\ phase = "returned"
    /\ data = <<"<", "%", "=">> \o Word.end
    /\ ret.val = <<Token(<<"<", "%", "=">>, "Keyword"), Token(Word.end, "Keyword")>>

\* C20: json::lex, given the lexeme alone of a String token it returned,
\* returns exactly that token.
C20_StringRelex ==
    (mode = "json" /\ phase = "returned") =>
        \A i \in DOMAIN ret.val :
            ret.val[i].category = "String" =>
                json_lex(ret.val[i].lexeme) =
                    [panicked |-> FALSE, tokens |-> <<ret.val[i]>>]

\* json::lex returned a closed string after a Text token
C20_Witness ==
    /\ mode = "json" /\ phase = "returned"
    /\ ret.val = <<Token(<<"x">>, "Text"), Token(<<"\"", "x", "\"">>, "String")>>

\* the lexers whose states push on the state stack
Pushing == Stacked \cup {"xml"}

\* C23: in the lexers that push states (xml, ruby, javascript, rust) lex
\* returns only when a state returns None and the stack is empty: a None with
\* a non-empty stack resumes the popped state, so the stack is empty whenever
\* lex returns.
C23_StackEmptyAtReturn ==
    (mode \in Pushing /\ phase = "returned") => states = <<>>

\* what holds instead: the loops of ruby, javascript and rust return with an
\* empty stack
C23_StackedEmptyAtReturn ==
    (mode \in Stacked /\ phase = "returned") => states = <<>>

\* C24: in the ruby, javascript and rust lexers, when the whitespace state
\* meets a character that is neither a space nor a newline it commits the
\* pending run as Whitespace, and the next state is the most recently pushed
\* state not yet popped, which it pops, or initial_state when the stack is
\* empty.
C24_WhitespaceResumes ==
    [][(/\ mode \in Stacked /\ phase = "running" /\ state_function = "whitespace"
        /\ head < Len(data) /\ data[head + 1] \notin Whitespace
        /\ iterations' = iterations + 1) =>
          /\ tokens' = tokens \o (IF current_token # <<>>
                                  THEN <<Token(current_token, "Whitespace")>> ELSE <<>>)
          /\ current_token' = <<>> /\ head' = head
          /\ IF states = <<>>
             THEN state_function' = InitialState /\ states' = <<>>
             ELSE /\ state_function' = states[Len(states)]
                  /\ states' = SubSeq(states, 1, Len(states) - 1)]_vars

\* after "def " the ruby lexer is in the method state, popped off the stack
C24_Witness ==
    /\ mode = "ruby" /\ phase = "running" /\ state_function = "method"
    /\ data = Word.def \o <<" ", "x">> /\ head = 4 /\ states = <<>>
    /\ tokens = <<Token(Word.def, "Keyword"), Token(<<" ">>, "Whitespace")>>

\* C25: in the xml, ruby, javascript and rust lexers the state stack never
\* holds more than one entry while input remains: every pushed state is
\* popped before the next push.
C25_StackAtMostOne ==
    (mode \in Pushing /\ phase = "running" /\ head < Len(data)) => Len(states) <= 1

\* what holds of the xml lexer: its stack never holds more than one entry
C25_XmlStackAtMostOne ==
    (mode = "xml" /\ phase = "running") => Len(states) <= 1

(***************************************************************************)
(* Properties of the state stack (specification StackSpec)                 *)
(***************************************************************************)
\* C26: the state stack is a LIFO changed only by push and pop: push puts
\* its argument on top, pop returns and removes the top entry, or returns
\* none and changes nothing when the stack is empty; both leave head, tail
\* and the committed tokens unchanged, and advance, tokenize, tokenize_next,
\* consume_whitespace and tokens leave the stack unchanged.
C26_StackLifo ==
    [][/\ ret'.op = "push" =>
            /\ states' = Append(states, ret'.arg)
            /\ UNCHANGED <<head, current_token, tokens, data>>
       /\ ret'.op = "pop" =>
            /\ IF states = <<>>
               THEN ret'.val = None /\ states' = <<>>
               ELSE /\ ret'.val = states[Len(states)]
                    /\ states' = SubSeq(states, 1, Len(states) - 1)
            /\ UNCHANGED <<head, current_token, tokens, data>>
       /\ ret'.op \in {"advance", "tokenize", "tokenize_next", "consume_whitespace",
                       "tokens"} => states' = states]_vars

\* two states were pushed, the text was scanned with the stack in place, and
\* pop has returned the later of the two
C26_Witness ==
    /\ mode = "stack" /\ ret = [op |-> "pop", val |-> "whitespace"]
    /\ states = <<InitialState>> /\ head > 0 /\ tokens # <<>>

\* the lexers with an inside_string state
Quoting == {"json", "xml", "ruby", "javascript", "rust"}

\* C29: inside a double-quoted string (inside_string of json, xml, ruby,
\* javascript and rust) a backslash and the one character after it are
\* consumed as a pair, without moving head past the end of the input, so an
\* escaped quote does not close the string; the String token is committed at
\* the first unescaped quote after the opening one, or at the end of the input.
C29_EscapedPairs ==
    [][(/\ mode \in Quoting /\ phase = "running" /\ state_function = "inside_string"
        /\ iterations' = iterations + 1) =>
          LET c == IF head < Len(data) THEN data[head + 1] ELSE None
              pending == Span(TailPos, head)
          IN  /\ Unclosed(pending)
              /\ CASE c = "\\" ->
                        /\ head' = Min(head + 2, Len(data))
                        /\ tokens' = tokens /\ TailPos' = TailPos
                        /\ state_function' = "inside_string"
                   [] c = "\"" ->
                        /\ head' = head + 1 /\ current_token' = <<>>
                        /\ tokens' = Append(tokens, Token(Append(pending, "\""), "String"))
                        /\ ~Unclosed(Append(pending, "\""))
                   [] c = None ->
                        /\ head' = head /\ current_token' = <<>>
                        /\ tokens' = Append(tokens, Token(pending, "String"))
                   [] OTHER ->
                        /\ head' = head + 1
                        /\ tokens' = tokens /\ TailPos' = TailPos
                        /\ state_function' = "inside_string"]_vars

\* json::lex has returned one String token in which an escaped quote did not
\* close the string
C29_Witness ==
    /\ mode = "json" /\ phase = "returned"
    /\ data = <<"\"", "\\", "\"", "\"">>
    /\ ret.val = <<Token(data, "String")>>

\* a backslash was the last character of the input: head stays at the end
C29_WitnessLast ==
    /\ mode \in Quoting /\ phase = "returned" /\ state_function = "inside_string"
    /\ data = <<"\"", "\\">> /\ head = 2
    /\ ret.val = <<Token(data, "String")>>

\* C30: every Integer token returned by the ruby and javascript lexers is a
\* maximal run of decimal digits: its lexeme consists of digits only and the
\* character of the input right after it, if any, is not a digit.
C30_IntegerTokens ==
    (mode \in {"ruby", "javascript"} /\ phase = "returned") =>
        \A i \in DOMAIN ret.val :
            ret.val[i].category = "Integer" =>
                LET lexeme == ret.val[i].lexeme
                    stop == Len(Concat(SubSeq(ret.val, 1, i)))
                IN  /\ \A j \in DOMAIN lexeme : lexeme[j] \in Digits
                    /\ stop < Len(data) => data[stop + 1] \notin Digits

\* what holds of the Integer tokens: the last character of the lexeme is
\* numeric (char::is_numeric) and the character right after it is not
C30_IntegerEnds ==
    (mode \in {"ruby", "javascript"} /\ phase = "returned") =>
        \A i \in DOMAIN ret.val :
            ret.val[i].category = "Integer" =>
                LET lexeme == ret.val[i].lexeme
                    stop == Len(Concat(SubSeq(ret.val, 1, i)))
                IN  /\ is_numeric(lexeme[Len(lexeme)])
                    /\ stop < Len(data) => ~is_numeric(data[stop + 1])

(***************************************************************************)
(* Properties of html_erb::lex (specification LexSpec)                     *)
(***************************************************************************)
\* the least index i >= from at which d continues with the two characters
\* a, b; 0 when there is none
FirstPair(d, from, a, b) ==
    LET hits == {i \in from..(Len(d) - 1) : d[i] = a /\ d[i + 1] = b}
    IN  IF hits = {} THEN 0 ELSE CHOOSE i \in hits : \A j \in hits : i <= j

RECURSIVE ErbRuns(_, _, _)
\* the runs of d from index from on, read with embedded code open (inside)
\* or not: html runs, ruby runs and the delimiters between them
ErbRuns(d, from, inside) ==
    LET i == IF inside THEN FirstPair(d, from, "%", ">") ELSE FirstPair(d, from, "<", "%")
        kind == IF inside THEN "ruby" ELSE "html"
        stop == IF i = 0 THEN Len(d) + 1 ELSE i
        run == IF stop > from
               THEN <<[kind |-> kind, text |-> SubSeq(d, from, stop - 1)]>> ELSE <<>>
        width == IF ~inside /\ i + 2 <= Len(d) /\ d[i + 2] = "=" THEN 3 ELSE 2
    IN  IF i = 0 THEN run
        ELSE run \o <<[kind |-> "delimiter", text |-> SubSeq(d, i, i + width - 1)]>>
                 \o ErbRuns(d, i + width, ~inside)

RECURSIVE ErbTokens(_)
\* the tokens of a sequence of runs: the delimiter itself as Keyword,
\* ruby::lex of a ruby run, xml::lex of an html run
ErbTokens(runs) ==
    IF runs = <<>> THEN <<>>
    ELSE LET r == Head(runs)
         IN  (CASE r.kind = "delimiter" -> <<Token(r.text, "Keyword")>>
                [] r.kind = "ruby" -> ruby_lex(r.text).tokens
                [] r.kind = "html" -> xml_lex(r.text).tokens)
             \o ErbTokens(Tail(runs))

\* C31: html_erb::lex(D) is the concatenation, over the runs of D in order,
\* of the delimiter itself as a Keyword token for <%, <%= and %>, of
\* ruby::lex(run) for a run between an opening delimiter and the next %> or
\* the end of the input, and of xml::lex(run) for a run outside delimiters.
C31_HtmlErbSplices ==
    mode = "html_erb" =>
        /\ phase # "panicked"
        /\ phase = "returned" => ret.val = ErbTokens(ErbRuns(data, 1, FALSE))

\* an html run was lexed by xml::lex and a ruby run by ruby::lex around <%
C31_Witness ==
    /\ mode = "html_erb" /\ phase = "returned"
    /\ data = <<"<", "a", ">", "<", "%">> \o Word.end
    /\ ret.val = xml_lex(<<"<", "a", ">">>).tokens
                    \o <<Token(<<"<", "%">>, "Keyword"), Token(Word.end, "Keyword")>>

\* C32: in the carve loop of html_erb::lex an opening delimiter <%= met
\* outside embedded code is committed as one Keyword token of three
\* characters, and the states alternate: after an opening delimiter the
\* scanner stays in the ruby state until the next %> or the end of the input,
\* and <% inside embedded code is not a delimiter.
C32_CarveAlternates ==
    [][(mode = "html_erb" /\ phase = "running" /\ iterations' = iterations + 1) =>
          LET at(w) == /\ head + Len(w) <= Len(data)
                       /\ SubSeq(data, head + 1, head + Len(w)) = w
              flushed(k) == IF current_token # <<>>
                            THEN <<Token(current_token, k)>> ELSE <<>>
          IN  /\ (state_function = InitialState /\ at(<<"<", "%", "=">>)) =>
                    /\ tokens' = tokens \o flushed("Text")
                                    \o <<Token(<<"<", "%", "=">>, "Keyword")>>
                    /\ head' = head + 3 /\ current_token' = <<>>
                    /\ state_function' = "ruby"
              /\ (state_function = InitialState /\ state_function' = "ruby") =>
                    at(<<"<", "%">>)
              /\ (state_function = "ruby" /\ ~at(<<"%", ">">>)) =>
                    /\ state_function' = "ruby"
                    /\ head < Len(data) =>
                          (tokens' = tokens /\ head' = head + 1 /\ phase' = "running")
                    /\ head = Len(data) => phase' = "carved"
              /\ (state_function = "ruby" /\ at(<<"%", ">">>)) =>
                    /\ tokens' = tokens \o flushed("String")
                                    \o <<Token(<<"%", ">">>, "Keyword")>>
                    /\ state_function' = InitialState]_vars

\* <% after <%= was carved as embedded code
C32_Witness ==
    /\ mode = "html_erb" /\ phase = "carved" /\ state_function = "ruby"
    /\ data = <<"<", "%", "=", "<", "%">>
    /\ tokens = <<Token(<<"<", "%", "=">>, "Keyword"), Token(<<"<", "%">>, "String")>>

\* C33: the json lexer handles multi-byte characters at any position: it never
\* fails, and in initial_state with no pending span it tests for true, false
\* and null in the input from the current character on, so a literal that
\* begins at head is committed as Boolean or Keyword.
C33_JsonMultiByte ==
    [][(mode = "json" /\ phase = "running" /\ iterations' = iterations + 1) =>
          LET at(w) == /\ head + Len(w) <= Len(data)
                       /\ SubSeq(data, head + 1, head + Len(w)) = w
              taken(w, k) == (state_function = InitialState /\ current_token = <<>> /\ at(w)) =>
                                (tokens' = Append(tokens, Token(w, k)) /\ head' = head + Len(w))
          IN  /\ phase' # "panicked"
              /\ taken(Word.true, "Boolean")
              /\ taken(Word.false, "Boolean")
              /\ taken(Word.null, "Keyword")]_vars

\* C34: default::lex returns only Text and Whitespace tokens, alternating: a
\* Whitespace token is a maximal run of spaces and newlines, a Text token a
\* maximal run of other characters, and no two adjacent tokens have the same
\* category.
C34_DefaultAlternates ==
    (mode = "default" /\ phase = "returned") =>
        /\ Concat(ret.val) = data
        /\ \A i \in DOMAIN ret.val :
              LET lexeme == ret.val[i].lexeme
              IN  /\ lexeme # <<>>
                  /\ \/ /\ ret.val[i].category = "Whitespace"
                        /\ \A j \in DOMAIN lexeme : lexeme[j] \in Whitespace
                     \/ /\ ret.val[i].category = "Text"
                        /\ \A j \in DOMAIN lexeme : lexeme[j] \notin Whitespace
                  /\ i > 1 => ret.val[i - 1].category # ret.val[i].category

\* Text and Whitespace tokens in turn, the last a run of two characters
C34_Witness ==
    /\ mode = "default" /\ phase = "returned"
    /\ data = <<"a", " ", "b", " ", "\n">>
    /\ ret.val = <<Token(<<"a">>, "Text"), Token(<<" ">>, "Whitespace"),
                   Token(<<"b">>, "Text"), Token(<<" ", "\n">>, "Whitespace")>>

\* C35: in the xml lexer every step into the whitespace state pushes a state
\* in the same step, so when whitespace pops the stack, at the first character
\* after the run, the stack is not empty and the pop does not fail: the state
\* popped is the next state.
C35_XmlPopNeverFails ==
    [][(mode = "xml" /\ phase = "running" /\ iterations' = iterations + 1) =>
          /\ phase' # "panicked"
          /\ (state_function # "whitespace" /\ state_function' = "whitespace") =>
                (Len(states') = Len(states) + 1 /\ SubSeq(states', 1, Len(states)) = states)
          /\ (state_function = "whitespace" /\ head < Len(data)
                /\ data[head + 1] \notin Whitespace) =>
                /\ states # <<>>
                /\ state_function' = states[Len(states)]
                /\ states' = SubSeq(states, 1, Len(states) - 1)]_vars

\* whitespace after a tag name popped inside_tag, pushed by start_of_tag
C35_Witness ==
    /\ mode = "xml" /\ phase = "running" /\ state_function = "inside_tag"
    /\ data = <<"<", "a", " ", "a">> /\ head = 3 /\ states = <<>>
    /\ LastOf(tokens) = Token(<<" ">>, "Whitespace")

\* C36: the carve loop of html_erb::lex commits only Keyword, String and Text
\* tokens, and so does tokens() after it: the fold never meets a token of
\* another category, and no carved run is dropped.
C36_CarvedCategories ==
    mode = "html_erb" =>
        /\ \A i \in DOMAIN tokens : tokens[i].category \in {"Keyword", "String", "Text"}
        /\ phase \in {"carved", "returned"} =>
              /\ \A i \in DOMAIN tokens_fn(T) :
                    tokens_fn(T)[i].category \in {"Keyword", "String", "Text"}
              /\ Concat(tokens_fn(T)) = data
        /\ phase = "returned" => Concat(ret.val) = data

\* the carve loop has ended with a token of each of the three categories
C36_Witness ==
    /\ mode = "html_erb" /\ phase = "carved"
    /\ tokens = <<Token(<<"<", "a", ">">>, "Text"), Token(<<"<", "%">>, "Keyword"),
                  Token(Word.end, "String")>>

\* the Whitespace tokens of ts hold spaces and newlines only
BlankWhitespace(ts) ==
    \A i \in DOMAIN ts :
        ts[i].category = "Whitespace" =>
            \A j \in DOMAIN ts[i].lexeme : ts[i].lexeme[j] \in Whitespace

\* C37: in the tokens every format lexer returns, a Whitespace token holds
\* only spaces and newlines, also when the input ends inside a method or
\* function name or a comment.
C37_WhitespaceLexemes ==
    (mode \in FormatLexers /\ phase = "returned") => BlankWhitespace(ret.val)

\* what holds: the Whitespace tokens of json, xml and default are blank
C37_FlatWhitespaceLexemes ==
    (mode \in Flat /\ phase = "returned") => BlankWhitespace(ret.val)

\* r, the result of a state function, is None only with head at the end of
\* the input and nothing pending
FinishedAtEnd(r) ==
    r.next = None => (r.t.head = Len(r.t.data) /\ r.t.current_token = <<>>)

\* C38: a state function of a format lexer returns None only with head at
\* the end of the input and after committing the pending span; so when lex
\* returns, tail = head = the length of the input and tokens() adds no token
\* to the committed ones.
C38_FinishedAtEnd ==
    /\ (mode \in FormatLexers /\ phase = "returned") =>
          (head = Len(data) /\ TailPos = head /\ ret.val = tokens)
    /\ (mode = "default" /\ phase = "running") =>
          FinishedAtEnd(default_state(state_function, T))
    /\ (mode = "json" /\ phase = "running") =>
          FinishedAtEnd(json_state(state_function, T))
    /\ (mode = "xml" /\ phase = "running") =>
          FinishedAtEnd(xml_state(state_function, T))
    /\ (mode = "ruby" /\ phase = "running") =>
          FinishedAtEnd(ruby_state(state_function, T))
    /\ (mode = "javascript" /\ phase = "running") =>
          FinishedAtEnd(javascript_state(state_function, T))
    /\ (mode = "rust" /\ phase = "running") =>
          FinishedAtEnd(rust_state(state_function, T))

\* xml::lex has returned the committed tokens, the last committed by the
\* state that returned None
C38_Witness ==
    /\ mode = "xml" /\ phase = "returned" /\ state_function = "inside_tag"
    /\ head = Len(data) /\ current_token = <<>>
    /\ Len(tokens) = 2 /\ ret.val = tokens /\ LastOf(tokens).category = "Identifier"

\* C39: the json lexer recognises true, false (Boolean) and null (Keyword)
\* only with no pending span: a step that commits a Boolean or Keyword token
\* starts with tail = head, and with a span pending a character that is not
\* punctuation, whitespace or a quote is added to the span, whatever letters
\* follow.
C39_LiteralsAtTokenStart ==
    [][(mode = "json" /\ phase = "running" /\ iterations' = iterations + 1) =>
          /\ (Len(tokens') > Len(tokens)
                /\ LastOf(tokens').category \in {"Boolean", "Keyword"}) =>
                (current_token = <<>> /\ Len(tokens') = Len(tokens) + 1)
          /\ (state_function = InitialState /\ current_token # <<>> /\ head < Len(data)
                /\ data[head + 1] \notin {"{", "}", "[", "]", ":", "\""} \cup Whitespace) =>
                /\ tokens' = tokens
                /\ current_token' = Append(current_token, data[head + 1])]_vars

\* "xtrue" was returned as one Text token
C39_Witness ==
    /\ mode = "json" /\ phase = "returned"
    /\ data = <<"x">> \o Word.true
    /\ ret.val = <<Token(data, "Text")>>

====
